---------------------------- MODULE Spec2Model ----------------------------
(***************************************************************************)
(* OECD SDMX client (src/src/sdmx-client.ts, class OECDSDMXClient): the    *)
(* API access pipeline.  One client instance is shared by several logical  *)
(* queryData calls running on one event loop.  Time is the simulated clock *)
(* Date.now() in milliseconds; a timer fires at the instant it is due and  *)
(* promise continuations take no time.                                     *)
(***************************************************************************)
EXTENDS Integers, Sequences, FiniteSets, TLC

(***************************************************************************)
(* Program constants (fields of OECDSDMXClient).                           *)
(***************************************************************************)
MIN_REQUEST_INTERVAL_MS == 1500
REQUEST_TIMEOUT_MS == 30000
MAX_RETRIES == 3
INITIAL_RETRY_DELAY_MS == 1000

(***************************************************************************)
(* Bounds of the model.                                                    *)
(***************************************************************************)
\* Date.now() when the client is constructed (any value >= 1500 behaves alike)
StartClock == 10000
\* a logical call is issued at StartClock or MaxStartDelay ms later
MaxStartDelay == 700
\* a response or a network failure arrives at once or NetLatency ms after the call
NetLatency == 500
\* number of logical calls sharing the client
NumCallers == 2
\* retries the remote provokes in total while several calls share the client
\* (a call running alone gets every outcome on every attempt)
MaxSharedRetries == 1

Callers == 1..NumCallers
StartOffsets == {0, MaxStartDelay}
Latencies == {0, NetLatency}

\* HTTP statuses the remote answers with: ok, two client errors, a server error
Statuses == {200, 404, 429, 500}

TimeoutMessage == "OECD API request timed out after 30 seconds"

\* failures node-fetch rejects with on its own (the AbortError comes from the deadline)
FetchErrors ==
    { [name |-> "FetchError", message |-> "read ECONNRESET", statusCode |-> 0],
      [name |-> "TypeError", message |-> "Invalid URL", statusCode |-> 0] }

NoError == [name |-> "", message |-> "", statusCode |-> 0]
AbortError == [name |-> "AbortError", message |-> "The operation was aborted", statusCode |-> 0]
TimeoutError == [name |-> "Error", message |-> TimeoutMessage, statusCode |-> 0]

VARIABLES
    now,              \* Date.now()
    lastRequestTime,  \* per instance: OECDSDMXClient.lastRequestTime
    requestQueue,     \* per instance: the promise chain, one entry per enforceRateLimit() call, in call order
    pc,               \* position of each logical call
    attempt,          \* loop variable of fetchWithRetry
    ticket,           \* index in its instance's requestQueue of the admission the call awaits / last used
    due,              \* due time of the call's pending timer (abort deadline or backoff)
    lastError,        \* local lastError of fetchWithRetry
    response,         \* status of the response fetchWithRetry returned (0: none)
    error,            \* the error the call rejected with
    exec,             \* state of the call's fetchWithRetry: none, running, returned, threw
    calls,            \* per call: log of the network calls it issued
    hist,             \* per call: outcome of each finished attempt
    startedAt,        \* time the call was issued
    endedAt,          \* time fetchWithRetry returned or threw
    clients,          \* the logical calls of this run
    request,          \* per call: the operation called, its arguments and the URL built
    result,           \* per call: what the operation resolved with
    arg,              \* the argument of a function applied on its own
    ret               \* what that function returned or threw

vars == << now, lastRequestTime, requestQueue, pc, attempt, ticket, due,
           lastError, response, error, exec, calls, hist, startedAt, endedAt,
           clients, request, result, arg, ret >>

limiter == << lastRequestTime, requestQueue >>

(***************************************************************************)
(* Helpers.                                                                *)
(***************************************************************************)
RECURSIVE Pow2(_)
Pow2(n) == IF n = 0 THEN 1 ELSE 2 * Pow2(n - 1)

Min(S) == CHOOSE x \in S : \A y \in S : x <= y

(***************************************************************************)
(* isRetryableError: message.toLowerCase() contains one of the patterns.   *)
(***************************************************************************)
UpperCase == << "A", "B", "C", "D", "E", "F", "G", "H", "I", "J", "K", "L", "M", "N", "O", "P", "Q", "R", "S", "T", "U", "V", "W", "X", "Y", "Z" >>
LowerCase == << "a", "b", "c", "d", "e", "f", "g", "h", "i", "j", "k", "l", "m", "n", "o", "p", "q", "r", "s", "t", "u", "v", "w", "x", "y", "z" >>

\* the characters of each error message of the model
MessageChars(m) ==
    CASE m = "read ECONNRESET" ->
           << "r", "e", "a", "d", " ", "E", "C", "O", "N", "N", "R", "E", "S", "E", "T" >>
      [] m = "Invalid URL" ->
           << "I", "n", "v", "a", "l", "i", "d", " ", "U", "R", "L" >>
      [] m = "The operation was aborted" ->
           << "T", "h", "e", " ", "o", "p", "e", "r", "a", "t", "i", "o", "n", " ", "w", "a", "s", " ", "a", "b", "o", "r", "t", "e", "d" >>
      [] m = "OECD API request timed out after 30 seconds" ->
           << "O", "E", "C", "D", " ", "A", "P", "I", " ", "r", "e", "q", "u", "e", "s", "t", " ", "t", "i", "m", "e", "d", " ", "o", "u", "t", " ", "a", "f", "t", "e", "r", " ", "3", "0", " ", "s", "e", "c", "o", "n", "d", "s" >>
      [] OTHER -> << >>

retryablePatterns ==
    << << "e", "c", "o", "n", "n", "r", "e", "s", "e", "t" >>,
       << "e", "t", "i", "m", "e", "d", "o", "u", "t" >>,
       << "e", "c", "o", "n", "n", "r", "e", "f", "u", "s", "e", "d" >>,
       << "e", "n", "o", "t", "f", "o", "u", "n", "d" >>,
       << "s", "o", "c", "k", "e", "t", " ", "h", "a", "n", "g", " ", "u", "p" >>,
       << "n", "e", "t", "w", "o", "r", "k" >>,
       << "t", "l", "s" >>,
       << "s", "s", "l" >>,
       << "c", "e", "r", "t", "i", "f", "i", "c", "a", "t", "e" >>,
       << "g", "e", "t", "a", "d", "d", "r", "i", "n", "f", "o" >>,
       << "d", "n", "s" >> >>

ToLowerCase(s) ==
    [i \in 1..Len(s) |->
        IF \E k \in 1..Len(UpperCase) : UpperCase[k] = s[i]
        THEN LowerCase[CHOOSE k \in 1..Len(UpperCase) : UpperCase[k] = s[i]]
        ELSE s[i]]

Includes(s, p) ==
    \E k \in 0..(Len(s) - Len(p)) : \A j \in 1..Len(p) : s[k + j] = p[j]

isRetryableError(e) ==
    LET message == ToLowerCase(MessageChars(e.message))
    IN  \E k \in 1..Len(retryablePatterns) : Includes(message, retryablePatterns[k])

(***************************************************************************)
(* sanitizeFilter: the pattern /^[A-Za-z0-9._\-:+*]+$/ and                 *)
(* encodeURIComponent.  A filter is the sequence of its characters.        *)
(***************************************************************************)
Digits == << "0", "1", "2", "3", "4", "5", "6", "7", "8", "9" >>

Range(s) == { s[i] : i \in 1..Len(s) }

AlphaNumeric == Range(UpperCase) \cup Range(LowerCase) \cup Range(Digits)

\* the character class [A-Za-z0-9._\-:+*]
FilterClass == AlphaNumeric \cup { ".", "_", "-", ":", "+", "*" }

\* /^[A-Za-z0-9._\-:+*]+$/.test(filter): one or more characters, all of the class
FilterPatternTest(filter) ==
    /\ Len(filter) >= 1
    /\ \A i \in 1..Len(filter) : filter[i] \in FilterClass

\* characters encodeURIComponent leaves alone
UriUnreserved == AlphaNumeric \cup { "-", "_", ".", "!", "~", "*", "'", "(", ")" }

\* the escape sequence of the other characters of the model
PercentEncoded(ch) ==
    CASE ch = ":" -> << "%", "3", "A" >>
      [] ch = "+" -> << "%", "2", "B" >>
      [] ch = "/" -> << "%", "2", "F" >>
      [] ch = ";" -> << "%", "3", "B" >>
      [] ch = " " -> << "%", "2", "0" >>
      [] ch = "%" -> << "%", "2", "5" >>

RECURSIVE encodeURIComponent(_)
\* every character is kept or escaped; the string is split in halves to keep the
\* evaluation shallow
encodeURIComponent(str) ==
    IF Len(str) = 0 THEN << >>
    ELSE IF Len(str) = 1
         THEN (IF str[1] \in UriUnreserved THEN << str[1] >> ELSE PercentEncoded(str[1]))
         ELSE LET half == Len(str) \div 2
              IN  encodeURIComponent(SubSeq(str, 1, half))
                      \o encodeURIComponent(SubSeq(str, half + 1, Len(str)))

InvalidFilterError(filter) ==
    [name |-> "Error", message |-> "Invalid filter format", statusCode |-> 0,
     filter |-> filter]

Returned(v) == [threw |-> FALSE, value |-> v]
Threw(e) == [threw |-> TRUE, error |-> e]

\* (variant) every filter is passed on, encoded
sanitizeFilterEncodeOnly(filter) ==
    Returned(encodeURIComponent(filter))

\* (variant) an accepted filter is returned as it came
sanitizeFilterUnencoded(filter) ==
    IF ~FilterPatternTest(filter)
    THEN Threw(InvalidFilterError(filter))
    ELSE Returned(filter)

sanitizeFilter(filter) ==
    IF ~FilterPatternTest(filter)
    THEN Threw(InvalidFilterError(filter))
    ELSE Returned(encodeURIComponent(filter))

(***************************************************************************)
(* The catalog and the URLs of the data endpoint.                          *)
(***************************************************************************)
OECD_SDMX_BASE == "https://sdmx.oecd.org/public/rest"

\* two entries of the 42 of the catalog
KNOWN_DATAFLOWS ==
    { [id |-> "QNA", fullId |-> "DSD_NAMAIN1@DF_QNA", agency |-> "OECD.SDD.NAD"],
      [id |-> "MEI", fullId |-> "DSD_STES@DF_CLI", agency |-> "OECD.SDD.STES"] }

\* (variant) every id is taken as known, with the entry of QNA
getDataflowByIdAny(id) ==
    { df \in KNOWN_DATAFLOWS : df.id = "QNA" }

\* KNOWN_DATAFLOWS.find((df) => df.id === id): the entry, or none
getDataflowById(id) ==
    { df \in KNOWN_DATAFLOWS : df.id = id }

UnknownDataflowError(dataflowId) ==
    [name |-> "Error",
     message |-> "Unknown dataflow: " \o dataflowId
                    \o ". Use listDataflows() to see available dataflows.",
     statusCode |-> 0]

all == << "a", "l", "l" >>

\* `${baseUrl}/data/${agency},${fullId}/${filter}?${params}`: the text of the URL is
\* prefix, filter, "?" and query one after the other
DataUrl(knownDf, filter, query) ==
    [prefix |-> OECD_SDMX_BASE \o "/data/" \o knownDf.agency \o "," \o knownDf.fullId \o "/",
     filter |-> filter,
     query |-> query]

NoUrl == [prefix |-> "", filter |-> << >>, query |-> ""]
NoRequest == [client |-> "", operation |-> "", dataflowId |-> "", filter |-> << >>, url |-> NoUrl]
NoValue == [threw |-> FALSE, value |-> << >>]
NotCalled == [pending |-> TRUE]

(***************************************************************************)
(* JSON values as parseDataObservations reads them.  An object with fixed  *)
(* property names is a record; the series and observations objects, keyed  *)
(* by wire keys, are lists of entries in insertion order, each key the     *)
(* sequence of its characters.                                             *)
(***************************************************************************)
Undefined == [t |-> "undefined"]
Null == [t |-> "null"]
Num(n) == [t |-> "number", v |-> n]
Str(text) == [t |-> "string", s |-> text]
Arr(items) == [t |-> "array", items |-> items]
Obj(fields) == [t |-> "object", fields |-> fields]
Dict(entries) == [t |-> "dict", entries |-> entries]

IsNullish(v) == v.t \in {"undefined", "null"}

\* ToBoolean(v)
Truthy(v) ==
    CASE v.t \in {"undefined", "null"} -> FALSE
      [] v.t = "number" -> v.v # 0
      [] v.t = "string" -> v.s # ""
      [] OTHER -> TRUE

\* a || b
OrElse(a, b) == IF Truthy(a) THEN a ELSE b

\* v.name of a value that is neither null nor undefined
Prop(v, name) ==
    IF v.t = "object" /\ name \in DOMAIN v.fields THEN v.fields[name] ELSE Undefined

\* v?.name
OptProp(v, name) == IF IsNullish(v) THEN Undefined ELSE Prop(v, name)

\* v[n] of a value that is neither null nor undefined; n = -1 stands for NaN
At(v, n) ==
    IF v.t = "array" /\ n >= 0 /\ n < Len(v.items) THEN v.items[n + 1] ELSE Undefined

\* the characters as one string
RECURSIVE Text(_)
Text(chars) == IF chars = << >> THEN "" ELSE chars[1] \o Text(Tail(chars))

RECURSIVE Split(_, _)
\* key.split(sep)
Split(chars, sep) ==
    IF \A i \in 1..Len(chars) : chars[i] # sep THEN << chars >>
    ELSE LET i == CHOOSE k \in 1..Len(chars) :
                     chars[k] = sep /\ \A j \in 1..(k - 1) : chars[j] # sep
         IN  << SubSeq(chars, 1, i - 1) >> \o Split(SubSeq(chars, i + 1, Len(chars)), sep)

DigitValue(ch) == (CHOOSE k \in 1..Len(Digits) : Digits[k] = ch) - 1

RECURSIVE DigitsPrefix(_)
DigitsPrefix(chars) ==
    IF chars # << >> /\ chars[1] \in Range(Digits)
    THEN << chars[1] >> \o DigitsPrefix(Tail(chars))
    ELSE << >>

RECURSIVE Decimal(_)
Decimal(ds) ==
    IF ds = << >> THEN 0 ELSE 10 * Decimal(SubSeq(ds, 1, Len(ds) - 1)) + DigitValue(ds[Len(ds)])

RECURSIVE SkipSpace(_)
SkipSpace(chars) ==
    IF chars # << >> /\ chars[1] = " " THEN SkipSpace(Tail(chars)) ELSE chars

\* parseInt(text, 10) as an array index: leading blanks are skipped, a sign is read,
\* then the longest run of digits; NaN and the negative numbers, which index no
\* element, are -1
parseInt(chars) ==
    LET trimmed == SkipSpace(chars)
        signed == trimmed # << >> /\ trimmed[1] \in {"-", "+"}
        ds == DigitsPrefix(IF signed THEN Tail(trimmed) ELSE trimmed)
    IN  IF ds = << >> THEN -1
        ELSE IF signed /\ trimmed[1] = "-" /\ Decimal(ds) # 0 THEN -1
        ELSE Decimal(ds)

EmptyMap == [k \in {} |-> ""]

\* m[k] = v
Put(m, k, v) == [x \in DOMAIN m \cup {k} |-> IF x = k THEN v ELSE m[x]]

\* { ...a, ...b }
Spread(a, b) == [x \in DOMAIN a \cup DOMAIN b |-> IF x \in DOMAIN b THEN b[x] ELSE a[x]]

TypeError == [name |-> "TypeError", message |-> "Cannot read properties of undefined",
              statusCode |-> 0]

\* (variant) the dimension definitions are not consulted
ResolveRaw(dimension, index) ==
    Returned(Text(index))

\* (variant) the first value of the dimension is taken, whatever the index
ResolveFirst(dimension, index) ==
    Returned(Prop(At(Prop(dimension, "values"), 0), "id").s)

\* dimension.values[parseInt(index, 10)]?.id || index, for a dimension that is there
Resolve(dimension, index) ==
    LET values == Prop(dimension, "values")
    IN  IF IsNullish(values) THEN Threw(TypeError)
        ELSE LET id == OptProp(At(values, parseInt(index)), "id")
             IN  Returned(IF Truthy(id) THEN id.s ELSE Text(index))

RECURSIVE parseSeriesParts(_, _, _, _)
\* parts.forEach((valueIndex, dimIndex) => ...), from dimIndex on
parseSeriesParts(parts, dimIndex, seriesDimensions, dimensions) ==
    IF dimIndex >= Len(parts) THEN Returned(dimensions)
    ELSE LET valueIndex == parts[dimIndex + 1]
             dimension == At(seriesDimensions, dimIndex)
         IN  IF Truthy(dimension)
             THEN LET actualValue == Resolve(dimension, valueIndex)
                  IN  IF actualValue.threw THEN actualValue
                      ELSE parseSeriesParts(parts, dimIndex + 1, seriesDimensions,
                               Put(dimensions, Prop(dimension, "id").s, actualValue.value))
             ELSE parseSeriesParts(parts, dimIndex + 1, seriesDimensions,
                      Put(dimensions, "DIM_" \o ToString(dimIndex), Text(valueIndex)))

parseSeriesKeyWithMetadata(key, seriesDimensions) ==
    parseSeriesParts(Split(key, ":"), 0, seriesDimensions, EmptyMap)

mapObservationDimension(obsKey, observationDimensions) ==
    LET timeDim == At(observationDimensions, 0)
    IN  IF Truthy(timeDim)
        THEN LET actualValue == Resolve(timeDim, obsKey)
             IN  IF actualValue.threw THEN actualValue
                 ELSE Returned(Put(EmptyMap, Prop(timeDim, "id").s, actualValue.value))
        ELSE Returned(Put(EmptyMap, "TIME_PERIOD", Text(obsKey)))

(***************************************************************************)
(* extractDimensionMetadata and parseDataObservations.                     *)
(***************************************************************************)
\* structures.length > 0
NonEmptyArray(v) == v.t = "array" /\ Len(v.items) > 0

\* (variant) the legacy shape is tried before the primary shape
extractDimensionMetadataLegacyFirst(data) ==
    LET structures == OptProp(OptProp(data, "data"), "structures")
        altStructure == OptProp(OptProp(data, "structure"), "dimensions")
    IN  IF Truthy(altStructure)
        THEN [seriesDimensions |-> OrElse(Prop(altStructure, "series"), Arr(<< >>)),
              observationDimensions |->
                  OrElse(Prop(altStructure, "observation"), Arr(<< >>))]
        ELSE IF NonEmptyArray(structures)
                  /\ Truthy(OptProp(At(structures, 0), "dimensions"))
             THEN LET dims == Prop(At(structures, 0), "dimensions")
                  IN  [seriesDimensions |-> OrElse(Prop(dims, "series"), Arr(<< >>)),
                       observationDimensions |->
                           OrElse(Prop(dims, "observation"), Arr(<< >>))]
             ELSE [seriesDimensions |-> Arr(<< >>), observationDimensions |-> Arr(<< >>)]

extractDimensionMetadata(data) ==
    LET structures == OrElse(OptProp(OptProp(data, "data"), "structures"),
                             OrElse(OptProp(OptProp(data, "structure"), "dimensions"),
                                    Arr(<< >>)))
        altStructure == OptProp(OptProp(data, "structure"), "dimensions")
    IN  IF NonEmptyArray(structures) /\ Truthy(OptProp(At(structures, 0), "dimensions"))
        THEN LET dims == Prop(At(structures, 0), "dimensions")
             IN  [seriesDimensions |-> OrElse(Prop(dims, "series"), Arr(<< >>)),
                  observationDimensions |-> OrElse(Prop(dims, "observation"), Arr(<< >>))]
        ELSE IF Truthy(altStructure)
             THEN [seriesDimensions |-> OrElse(Prop(altStructure, "series"), Arr(<< >>)),
                   observationDimensions |->
                       OrElse(Prop(altStructure, "observation"), Arr(<< >>))]
             ELSE [seriesDimensions |-> Arr(<< >>), observationDimensions |-> Arr(<< >>)]

\* the key is an array index in canonical form: such keys come first, ascending
IsIndexKey(chars) ==
    /\ chars # << >>
    /\ \A i \in 1..Len(chars) : chars[i] \in Range(Digits)
    /\ (Len(chars) = 1 \/ chars[1] # "0")

\* the entry at place i is the one with i - 1 keys below its own
Placed(ranked) ==
    [i \in 1..Cardinality(ranked) |-> (CHOOSE p \in ranked : p[2] = i - 1)[1]]

Ranked(indexed) ==
    Placed({ << p[1], Cardinality({ q \in indexed : q[2] < p[2] }) >> : p \in indexed })

\* the entries of S by ascending key
Ascending(S) ==
    Ranked({ << e, Decimal(e.k) >> : e \in S })

\* Object.entries(v) of a value that is neither null nor undefined
ObjectEntries(v) ==
    IF v.t = "dict"
    THEN Ascending({ e \in Range(v.entries) : IsIndexKey(e.k) })
             \o SelectSeq(v.entries, LAMBDA e : ~IsIndexKey(e.k))
    ELSE << >>

\* Array.isArray(obsValue) ? obsValue[0] : obsValue
ObservationValue(obsValue) ==
    IF obsValue.t = "array" THEN At(obsValue, 0) ELSE obsValue

\* the body of the innermost loop after the limit check: the record pushed
Observation(dimensions, obs, observationDimensions) ==
    LET timeDimension == mapObservationDimension(obs.k, observationDimensions)
    IN  IF timeDimension.threw THEN timeDimension
        ELSE Returned([dimensions |-> Spread(dimensions, timeDimension.value),
                       value |-> ObservationValue(obs.v)])

Thrown == << [kind |-> "throw"] >>

\* the iterations of the innermost loop for one entry of series, in order; a
\* statement of the series loop that throws stands in their place
ObservationSteps(dimensions, obs, meta) ==
    [i \in 1..Len(obs) |->
        [kind |-> "observation",
         record |-> Observation(dimensions, obs[i], meta.observationDimensions)]]

SeriesStepsWith(entry, dimensions, meta) ==
    IF dimensions.threw \/ IsNullish(entry.v) THEN Thrown
    ELSE ObservationSteps(dimensions.value,
             ObjectEntries(OrElse(Prop(entry.v, "observations"), Dict(<< >>))), meta)

SeriesSteps(entry, meta) ==
    SeriesStepsWith(entry, parseSeriesKeyWithMetadata(entry.k, meta.seriesDimensions), meta)

RECURSIVE Concat(_)
Concat(seqs) == IF seqs = << >> THEN << >> ELSE Head(seqs) \o Concat(Tail(seqs))

EachSeries(series, meta) ==
    Concat([i \in 1..Len(series) |-> SeriesSteps(series[i], meta)])

DatasetSteps(dataset, meta) ==
    IF IsNullish(dataset) THEN Thrown
    ELSE EachSeries(ObjectEntries(OrElse(Prop(dataset, "series"), Dict(<< >>))), meta)

\* for (const dataset of datasets): only an array is walked here, any other value
\* that is not falsy throws
Steps(datasets, meta) ==
    IF datasets.t # "array" THEN Thrown
    ELSE Concat([i \in 1..Len(datasets.items) |-> DatasetSteps(datasets.items[i], meta)])

\* (variant) the limit is tested with > in place of >=
LimitReachedLate(clientSideLimit, length) ==
    Truthy(clientSideLimit) /\ length > clientSideLimit.v

\* (variant) a limit of 0 is applied as a limit
LimitReachedFromZero(clientSideLimit, length) ==
    ~IsNullish(clientSideLimit) /\ length >= clientSideLimit.v

\* clientSideLimit && observations.length >= clientSideLimit
LimitReached(clientSideLimit, length) ==
    Truthy(clientSideLimit) /\ length >= clientSideLimit.v

\* (variant) an exception leaves parseDataObservations
CaughtRethrown(observations) ==
    Threw(TypeError)

\* (variant) the catch block returns what was decoded before the exception
CaughtPartial(observations) ==
    Returned(observations)

\* catch (error) { console.error(...); return []; }
Caught(observations) ==
    Returned(<< >>)

\* one step of the walk; run is [over, observations, result]
Step(step, run, clientSideLimit) ==
    IF run.over THEN run
    ELSE IF step.kind = "throw"
         THEN [run EXCEPT !.over = TRUE, !.result = Caught(run.observations)]
    ELSE IF LimitReached(clientSideLimit, Len(run.observations))
         THEN [run EXCEPT !.over = TRUE, !.result = Returned(run.observations)]
    ELSE IF step.record.threw
         THEN [run EXCEPT !.over = TRUE, !.result = Caught(run.observations)]
    ELSE [run EXCEPT !.observations = Append(@, step.record.value)]

RECURSIVE Walk(_, _, _)
RECURSIVE WalkOn(_, _, _)
\* the steps one after the other; the list is split in halves to keep the
\* evaluation shallow
Walk(steps, run, clientSideLimit) ==
    IF Len(steps) = 0 THEN run
    ELSE IF Len(steps) = 1 THEN Step(steps[1], run, clientSideLimit)
    ELSE WalkOn(SubSeq(steps, (Len(steps) \div 2) + 1, Len(steps)),
                Walk(SubSeq(steps, 1, Len(steps) \div 2), run, clientSideLimit),
                clientSideLimit)

\* the rest of the steps, unless the loop is over
WalkOn(steps, run, clientSideLimit) ==
    IF run.over THEN run ELSE Walk(steps, run, clientSideLimit)

\* what the function returns when the walk has ended in state run
Outcome(run) ==
    IF run.over THEN run.result ELSE Returned(run.observations)

parseDataObservations(data, clientSideLimit) ==
    Outcome(Walk(Steps(OrElse(OptProp(OptProp(data, "data"), "dataSets"), Arr(<< >>)),
                       extractDimensionMetadata(data)),
                 [over |-> FALSE, observations |-> << >>, result |-> Returned(<< >>)],
                 clientSideLimit))

(***************************************************************************)
(* parseDataStructure, extractAttributes and getFallbackStructure.  The    *)
(* ids and names of the structure returned are JSON values as read.        *)
(***************************************************************************)
\* for (const x of v) and [...v]: an array gives its items, a value that is not
\* iterable throws
Iterate(v) ==
    CASE v.t = "array" -> Returned(v.items)
      [] v.t \in {"undefined", "null", "number", "object", "dict"} -> Threw(TypeError)

\* the values of the outcomes, unless one of them is an exception
Collect(outcomes) ==
    IF \E i \in 1..Len(outcomes) : outcomes[i].threw
    THEN Threw(TypeError)
    ELSE Returned([i \in 1..Len(outcomes) |-> outcomes[i].value])

\* (v) => ({ id: v.id, name: v.name || v.id })
IdAndName(v) ==
    IF IsNullish(v) THEN Threw(TypeError)
    ELSE Returned([id |-> Prop(v, "id"), name |-> OrElse(Prop(v, "name"), Prop(v, "id"))])

\* items.slice(0, n)
Slice(items, n) ==
    SubSeq(items, 1, IF Len(items) < n THEN Len(items) ELSE n)

\* { id: dim.id, name: dim.name, values: (dim.values || []).slice(0, n).map(...) }
SDMXDimension(dim, n) ==
    IF IsNullish(dim) THEN Threw(TypeError)
    ELSE LET values == OrElse(Prop(dim, "values"), Arr(<< >>))
         IN  IF values.t # "array" THEN Threw(TypeError)
             ELSE LET mapped == Collect([i \in 1..Len(Slice(values.items, n)) |->
                                            IdAndName(values.items[i])])
                  IN  IF mapped.threw THEN mapped
                      ELSE Returned([id |-> Prop(dim, "id"), name |-> Prop(dim, "name"),
                                     values |-> mapped.value])

\* for (const dim of dimensions) allDimensions.push({ ... })
PushDimensions(dimensions, n) ==
    LET dims == Iterate(dimensions)
    IN  IF dims.threw THEN dims
        ELSE Collect([i \in 1..Len(dims.value) |-> SDMXDimension(dims.value[i], n)])

\* [...(attrs.series || []), ...(attrs.observation || [])].map(...)
AllAttrs(attrs) ==
    LET series == Iterate(OrElse(Prop(attrs, "series"), Arr(<< >>)))
        observation == Iterate(OrElse(Prop(attrs, "observation"), Arr(<< >>)))
    IN  IF series.threw \/ observation.threw THEN Threw(TypeError)
        ELSE Collect([i \in 1..(Len(series.value) + Len(observation.value)) |->
                         IdAndName((series.value \o observation.value)[i])])

DefaultAttributes ==
    << [id |-> Str("UNIT_MEASURE"), name |-> Str("Unit of Measure")],
       [id |-> Str("OBS_STATUS"), name |-> Str("Observation Status")] >>

extractAttributes(data) ==
    LET structures == OrElse(OptProp(OptProp(data, "data"), "structures"), Arr(<< >>))
        altAttrs == OptProp(OptProp(data, "structure"), "attributes")
    IN  IF NonEmptyArray(structures) /\ Truthy(OptProp(At(structures, 0), "attributes"))
        THEN AllAttrs(Prop(At(structures, 0), "attributes"))
        ELSE IF Truthy(altAttrs) THEN AllAttrs(altAttrs)
        ELSE Returned(DefaultAttributes)

\* { id, name } of a value of the fallback structure
Named(id, name) == [id |-> Str(id), name |-> Str(name)]

getFallbackStructure(dataflowId) ==
    [dataflowId |-> dataflowId,
     dimensions |->
       << [id |-> Str("REF_AREA"), name |-> Str("Reference Area"),
           values |-> << Named("SWE", "Sweden"), Named("USA", "United States"),
                         Named("DEU", "Germany"), Named("GBR", "United Kingdom"),
                         Named("FRA", "France"), Named("JPN", "Japan"),
                         Named("OECD", "OECD Total") >>],
          [id |-> Str("TIME_PERIOD"), name |-> Str("Time Period"),
           values |-> << Named("varies",
                           "Time dimension (use start_period/end_period parameters)") >>],
          [id |-> Str("MEASURE"), name |-> Str("Measure"),
           values |-> << Named("varies",
                           "See dataset documentation for available measures") >>] >>,
     attributes |-> DefaultAttributes]

\* allDimensions.length > 0 ? allDimensions : this.getFallbackStructure(dataflowId).dimensions
DimensionsOrFallback(allDimensions, dataflowId) ==
    IF Len(allDimensions) > 0 THEN allDimensions
    ELSE getFallbackStructure(dataflowId).dimensions

parseDataStructure(dataflowId, data) ==
    LET meta == extractDimensionMetadata(data)
        series == PushDimensions(meta.seriesDimensions, 50)
        observation == PushDimensions(meta.observationDimensions, 20)
        attributes == extractAttributes(data)
    IN  IF series.threw \/ observation.threw \/ attributes.threw THEN Threw(TypeError)
        ELSE Returned([dataflowId |-> dataflowId,
                       dimensions |-> DimensionsOrFallback(series.value \o observation.value,
                                                           dataflowId),
                       attributes |-> attributes.value])

(***************************************************************************)
(* Response bodies.                                                        *)
(***************************************************************************)
EmptyObject == Obj(EmptyMap)

\* no body was read from a response
NoBody == [json |-> FALSE, data |-> Null]

\* { data: { dataSets } }
WithDataSets(datasets) == Obj([data |-> Obj([dataSets |-> datasets])])

\* a dimension definition { id, values: [{ id }, ...] }
DimDef(id, valueIds) ==
    Obj([id |-> Str(id),
         values |-> Arr([i \in 1..Len(valueIds) |-> Obj([id |-> Str(valueIds[i])])])])

REF_AREA == DimDef("REF_AREA", << "USA", "CAN" >>)
MEASURE == DimDef("MEASURE", << "GDP", "CPI" >>)
TIME_PERIOD == DimDef("TIME_PERIOD", << "2020", "2021", "2022" >>)

\* { data: { dataSets, structures: [{ dimensions: { series, observation } }] } }
PrimaryShape(datasets, seriesDims, obsDims) ==
    Obj([data |-> Obj([dataSets |-> datasets,
                       structures |-> Arr(<< Obj([dimensions |->
                           Obj([series |-> Arr(seriesDims),
                                observation |-> Arr(obsDims)])]) >>)])])

\* { data: { dataSets }, structure: { dimensions: { series, observation } } }
LegacyShape(datasets, seriesDims, obsDims) ==
    Obj([data |-> Obj([dataSets |-> datasets]),
         structure |-> Obj([dimensions |-> Obj([series |-> Arr(seriesDims),
                                                observation |-> Arr(obsDims)])])])

(***************************************************************************)
(* Initial state: a newly constructed client, no call issued yet.          *)
(***************************************************************************)
\* const client1 = new OECDSDMXClient(); const client2 = new OECDSDMXClient()
client1 == "client1"
client2 == "client2"
Instances == {client1, client2}

\* (variant) the two fields are static: every instance reads and writes those of client1
FieldsStatic(this) ==
    client1

\* this.lastRequestTime and this.requestQueue are fields of the instance
Fields(this) ==
    this

\* the instance on which logical call c was made
ClientOf(c) ==
    Fields(request[c].client)

\* the fields of each new OECDSDMXClient; no operation has been called
NewClient ==
    /\ now = StartClock
    /\ lastRequestTime = [this \in Instances |-> 0]
    /\ requestQueue = [this \in Instances |-> << >>]
    /\ pc = [c \in Callers |-> "idle"]
    /\ attempt = [c \in Callers |-> 0]
    /\ ticket = [c \in Callers |-> 0]
    /\ due = [c \in Callers |-> 0]
    /\ lastError = [c \in Callers |-> NoError]
    /\ response = [c \in Callers |-> 0]
    /\ error = [c \in Callers |-> NoError]
    /\ exec = [c \in Callers |-> "none"]
    /\ calls = [c \in Callers |-> << >>]
    /\ hist = [c \in Callers |-> << >>]
    /\ startedAt = [c \in Callers |-> 0]
    /\ endedAt = [c \in Callers |-> 0]
    /\ request = [c \in Callers |-> NoRequest]
    /\ result = [c \in Callers |-> [kind |-> "none"]]

Init ==
    /\ clients \in { 1..n : n \in 1..NumCallers }
    /\ NewClient
    /\ arg = NoValue
    /\ ret = NoValue

(***************************************************************************)
(* enforceRateLimit                                                        *)
(***************************************************************************)
\* (variant) the new continuation is placed at the head of the chain
EnqueueAhead(this, c) ==
    [requestQueue EXCEPT ![this] =
        << [owner |-> c, st |-> "queued", due |-> 0, stamp |-> 0] >> \o @]

\* this.requestQueue = this.requestQueue.then(...): a new continuation at the tail
Enqueue(this, c) ==
    [requestQueue EXCEPT ![this] =
        Append(@, [owner |-> c, st |-> "queued", due |-> 0, stamp |-> 0])]

\* (variant) the continuation is chained to an already resolved promise
QueueTurnUnchained(this, i) ==
    TRUE

\* (variant) the attempt runs inside the chain: the continuation chained behind the
\* admission of a call that has failed is never run
QueueTurnUnlessFailed(this, i) ==
    IF i = 1 THEN TRUE
    ELSE /\ requestQueue[this][i - 1].st = "done"
         /\ pc[requestQueue[this][i - 1].owner] # "failed"

\* the continuation of entry i runs once the promise it was chained to is resolved
QueueTurn(this, i) ==
    IF i = 1 THEN TRUE ELSE requestQueue[this][i - 1].st = "done"

\* (variant) the wait is the time already elapsed, not the remainder
delayNeededElapsed(timeSinceLastRequest) ==
    timeSinceLastRequest

delayNeeded(timeSinceLastRequest) ==
    MIN_REQUEST_INTERVAL_MS - timeSinceLastRequest

\* (variant) the continuation sets its timer whatever the time elapsed
TooSoonAlways(timeSinceLastRequest) ==
    TRUE

\* (variant) an elapsed time of exactly the interval waits as well
TooSoonInclusive(timeSinceLastRequest) ==
    timeSinceLastRequest <= MIN_REQUEST_INTERVAL_MS

\* timeSinceLastRequest < this.MIN_REQUEST_INTERVAL_MS
TooSoon(timeSinceLastRequest) ==
    timeSinceLastRequest < MIN_REQUEST_INTERVAL_MS

\* the continuation starts: it stamps at once, or sets its timer and suspends
EnforceRateLimitTurn(this, i) ==
    /\ requestQueue[this][i].st = "queued"
    /\ QueueTurn(this, i)
    /\ LET timeSinceLastRequest == now - lastRequestTime[this]
       IN  IF TooSoon(timeSinceLastRequest)
           THEN /\ requestQueue' = [requestQueue EXCEPT
                        ![this][i].st = "sleeping",
                        ![this][i].due = now + delayNeeded(timeSinceLastRequest)]
                /\ UNCHANGED lastRequestTime
           ELSE /\ requestQueue' = [requestQueue EXCEPT
                        ![this][i].st = "done", ![this][i].stamp = now]
                /\ lastRequestTime' = [lastRequestTime EXCEPT ![this] = now]
    /\ UNCHANGED << now, pc, attempt, ticket, due, lastError, response, error,
                    exec, calls, hist, startedAt, endedAt, clients, request, result, arg, ret >>

\* the timer of a suspended continuation fires: this.lastRequestTime = Date.now()
EnforceRateLimitWake(this, i) ==
    /\ requestQueue[this][i].st = "sleeping"
    /\ requestQueue[this][i].due <= now
    /\ requestQueue' = [requestQueue EXCEPT ![this][i].st = "done", ![this][i].stamp = now]
    /\ lastRequestTime' = [lastRequestTime EXCEPT ![this] = now]
    /\ UNCHANGED << now, pc, attempt, ticket, due, lastError, response, error,
                    exec, calls, hist, startedAt, endedAt, clients, request, result, arg, ret >>

(***************************************************************************)
(* queryData and fetchWithRetry                                            *)
(***************************************************************************)
\* an async operation throws before its first await: the call rejects with e
Reject(c, e) ==
    /\ pc' = [pc EXCEPT ![c] = "failed"]
    /\ error' = [error EXCEPT ![c] = e]
    /\ UNCHANGED << requestQueue, exec, attempt, lastError, ticket >>

\* fetchWithRetry is called and awaited: its first loop iteration calls
\* enforceRateLimit and awaits it
FetchWithRetry(this, c) ==
    /\ pc' = [pc EXCEPT ![c] = "admit"]
    /\ exec' = [exec EXCEPT ![c] = "running"]
    /\ attempt' = [attempt EXCEPT ![c] = 0]
    /\ lastError' = [lastError EXCEPT ![c] = NoError]
    /\ requestQueue' = Enqueue(Fields(this), c)
    /\ ticket' = [ticket EXCEPT ![c] = Len(requestQueue[Fields(this)]) + 1]
    /\ UNCHANGED error

\* logical call c may be issued now
MayStart(c) ==
    /\ pc[c] = "idle"
    /\ c \in clients
    /\ \A d \in Callers : d < c => pc[d] # "idle"
    /\ (now - StartClock) \in StartOffsets

\* (variant) the filter is sanitized before the dataflow is looked up
QueryDataWithSanitizeFirst(this, c, dataflowId, filter) ==
    /\ MayStart(c)
    /\ startedAt' = [startedAt EXCEPT ![c] = now]
    /\ LET knownDf == getDataflowById(dataflowId)
           sanitizedFilter == IF filter = all THEN Returned(all) ELSE sanitizeFilter(filter)
           called == [client |-> this, operation |-> "queryData",
                      dataflowId |-> dataflowId, filter |-> filter, url |-> NoUrl]
       IN  IF sanitizedFilter.threw
           THEN /\ request' = [request EXCEPT ![c] = called]
                /\ Reject(c, sanitizedFilter.error)
           ELSE IF knownDf = {}
                THEN /\ request' = [request EXCEPT ![c] = called]
                     /\ Reject(c, UnknownDataflowError(dataflowId))
                ELSE /\ request' = [request EXCEPT ![c] =
                                      [called EXCEPT !.url =
                                          DataUrl(CHOOSE df \in knownDf : TRUE,
                                                  sanitizedFilter.value,
                                                  "format=jsondata")]]
                     /\ FetchWithRetry(this, c)
    /\ UNCHANGED << now, lastRequestTime, due, response, calls, hist, endedAt,
                    clients, result, arg, ret >>

\* queryData(dataflowId, filter, {}) is called
QueryDataWith(this, c, dataflowId, filter) ==
    /\ MayStart(c)
    /\ startedAt' = [startedAt EXCEPT ![c] = now]
    /\ LET knownDf == getDataflowById(dataflowId)
           sanitizedFilter == IF filter = all THEN Returned(all) ELSE sanitizeFilter(filter)
           called == [client |-> this, operation |-> "queryData",
                      dataflowId |-> dataflowId, filter |-> filter, url |-> NoUrl]
       IN  IF knownDf = {}
           THEN /\ request' = [request EXCEPT ![c] = called]
                /\ Reject(c, UnknownDataflowError(dataflowId))
           ELSE IF sanitizedFilter.threw
                THEN /\ request' = [request EXCEPT ![c] = called]
                     /\ Reject(c, sanitizedFilter.error)
                ELSE /\ request' = [request EXCEPT ![c] =
                                      [called EXCEPT !.url =
                                          DataUrl(CHOOSE df \in knownDf : TRUE,
                                                  sanitizedFilter.value,
                                                  "format=jsondata")]]
                     /\ FetchWithRetry(this, c)
    /\ UNCHANGED << now, lastRequestTime, due, response, calls, hist, endedAt,
                    clients, result, arg, ret >>

\* client1.queryData(known id, 'all') is called
QueryData(c) ==
    QueryDataWith(client1, c, "QNA", all)

\* getDataStructure(dataflowId) is called
GetDataStructure(this, c, dataflowId) ==
    /\ MayStart(c)
    /\ startedAt' = [startedAt EXCEPT ![c] = now]
    /\ LET knownDf == getDataflowById(dataflowId)
           called == [client |-> this, operation |-> "getDataStructure",
                      dataflowId |-> dataflowId, filter |-> << >>, url |-> NoUrl]
       IN  IF knownDf = {}
           THEN /\ request' = [request EXCEPT ![c] = called]
                /\ Reject(c, UnknownDataflowError(dataflowId))
           ELSE /\ request' = [request EXCEPT ![c] =
                                 [called EXCEPT !.url =
                                     DataUrl(CHOOSE df \in knownDf : TRUE, all,
                                             "format=jsondata&lastNObservations=1")]]
                /\ FetchWithRetry(this, c)
    /\ UNCHANGED << now, lastRequestTime, due, response, calls, hist, endedAt,
                    clients, result, arg, ret >>

\* (variant) enforceRateLimit() is called but not awaited
AdmissionNotAwaited(c) ==
    TRUE

\* await this.enforceRateLimit() resumes when the awaited promise is resolved
AdmissionResolved(c) ==
    requestQueue[ClientOf(c)][ticket[c]].st = "done"

\* the attempt: the abort timer is set and fetch is called
Fetch(c) ==
    /\ pc[c] = "admit"
    /\ AdmissionResolved(c)
    /\ pc' = [pc EXCEPT ![c] = "fetch"]
    /\ due' = [due EXCEPT ![c] = now + REQUEST_TIMEOUT_MS]
    /\ calls' = [calls EXCEPT ![c] = Append(@, [ticket |-> ticket[c], at |-> now,
                                                    url |-> request[c].url])]
    /\ UNCHANGED << now, limiter, attempt, ticket, lastError, response, error,
                    exec, hist, startedAt, endedAt, clients, request, result, arg, ret >>

\* time since the pending fetch of call c was issued
Latency(c) ==
    now - (due[c] - REQUEST_TIMEOUT_MS)

\* the remote may provoke one more retry
RECURSIVE SumAttempts(_)
SumAttempts(S) ==
    IF S = {} THEN 0
    ELSE LET c == CHOOSE x \in S : TRUE IN attempt[c] + SumAttempts(S \ {c})

MayRetry ==
    Cardinality(clients) = 1 \/ SumAttempts(Callers) < MaxSharedRetries

\* the pending fetch of call c can no longer be left to time out: a timeout would be
\* retried, and the remote may provoke no further retry
Overdue(c) ==
    /\ pc[c] = "fetch"
    /\ attempt[c] < MAX_RETRIES
    /\ ~MayRetry
    /\ \A l \in Latencies : Latency(c) >= l

\* the remote answers the pending fetch of call c at this instant
Answers(c) ==
    Latency(c) \in Latencies \/ Overdue(c)

\* (variant) a constant delay, no exponential growth
retryDelayConstant(a) ==
    INITIAL_RETRY_DELAY_MS

\* (variant) the delay grows linearly
retryDelayLinear(a) ==
    INITIAL_RETRY_DELAY_MS * (a + 1)

\* this.INITIAL_RETRY_DELAY_MS * Math.pow(2, attempt)
retryDelay(a) ==
    INITIAL_RETRY_DELAY_MS * Pow2(a)

\* await new Promise(resolve => setTimeout(resolve, delay)); continue
Backoff(c) ==
    /\ pc' = [pc EXCEPT ![c] = "backoff"]
    /\ due' = [due EXCEPT ![c] = now + retryDelay(attempt[c])]
    /\ UNCHANGED << response, error, exec, endedAt >>

\* fetchWithRetry throws e: queryData has no handler, so the call rejects with e;
\* in getDataStructure the catch block takes e
Throw(c, e) ==
    /\ pc' = [pc EXCEPT ![c] = IF request[c].operation = "getDataStructure"
                                THEN "caught" ELSE "failed"]
    /\ exec' = [exec EXCEPT ![c] = "threw"]
    /\ error' = [error EXCEPT ![c] = e]
    /\ endedAt' = [endedAt EXCEPT ![c] = now]
    /\ UNCHANGED << response, due >>

\* (variant) the recorded error is dropped
ExhaustedErrorGeneric(le) ==
    [name |-> "Error", message |-> "Failed after 3 retries", statusCode |-> 0]

\* throw lastError || new Error(`Failed after ${this.MAX_RETRIES} retries`)
ExhaustedError(le) ==
    IF le = NoError
    THEN [name |-> "Error", message |-> "Failed after 3 retries", statusCode |-> 0]
    ELSE le

\* (variant) a server error is retried on the last attempt as well
retryOnServerErrorAlways(s, a) ==
    s >= 500

\* (variant) a status of exactly 500 is not retried
retryOnServerErrorAbove500(s, a) ==
    s > 500 /\ a < MAX_RETRIES

\* (variant) every error status is retried
retryOnServerErrorFrom400(s, a) ==
    s >= 400 /\ a < MAX_RETRIES

\* response.status >= 500 && attempt < this.MAX_RETRIES
retryOnServerError(s, a) ==
    s >= 500 /\ a < MAX_RETRIES

\* fetch resolves with a response of status s
FetchResponds(c, s) ==
    /\ pc[c] = "fetch"
    /\ Answers(c)
    /\ retryOnServerError(s, attempt[c]) => MayRetry
    /\ hist' = [hist EXCEPT ![c] =
                  Append(@, [kind |-> "response", status |-> s, latency |-> Latency(c),
                             error |-> NoError])]
    /\ IF retryOnServerError(s, attempt[c])
       THEN Backoff(c)
       ELSE /\ pc' = [pc EXCEPT ![c] = "returned"]
            /\ exec' = [exec EXCEPT ![c] = "returned"]
            /\ response' = [response EXCEPT ![c] = s]
            /\ endedAt' = [endedAt EXCEPT ![c] = now]
            /\ UNCHANGED << error, due >>
    /\ UNCHANGED << now, limiter, attempt, ticket, lastError, calls, startedAt, clients, request, result, arg, ret >>

\* (variant) the error recorded on an earlier attempt is thrown in place of e
RethrownRecorded(c, e) ==
    IF lastError[c] # NoError THEN lastError[c] ELSE e

\* throw error, at the end of the catch block
Rethrown(c, e) ==
    e

\* (variant) a timeout ends the loop at once
retryOnTimeoutNever(a) ==
    FALSE

\* attempt < this.MAX_RETRIES, in the timeout branch
retryOnTimeout(a) ==
    a < MAX_RETRIES

\* (variant) a network failure is rethrown at once
retryOnNetworkErrorNever(e, a) ==
    FALSE

\* (variant) any failure of fetch is retried
retryOnNetworkErrorAny(e, a) ==
    a < MAX_RETRIES

\* this.isRetryableError(error) && attempt < this.MAX_RETRIES
retryOnNetworkError(e, a) ==
    isRetryableError(e) /\ a < MAX_RETRIES

\* (variant) the timeout is not recorded: lastError keeps what it held
TimeoutNotRecorded(c) ==
    lastError[c]

\* lastError = new Error(`OECD API request timed out after ... seconds`)
TimeoutRecorded(c) ==
    TimeoutError

\* the catch block of fetchWithRetry, entered with error e; the break of the
\* timeout branch leads to the throw that follows the loop
Catch(c, e) ==
    IF e.name = "AbortError"
    THEN /\ lastError' = [lastError EXCEPT ![c] = TimeoutRecorded(c)]
         /\ IF retryOnTimeout(attempt[c])
            THEN Backoff(c)
            ELSE Throw(c, ExhaustedError(TimeoutRecorded(c)))
    ELSE IF retryOnNetworkError(e, attempt[c])
         THEN /\ lastError' = [lastError EXCEPT ![c] = e]
              /\ Backoff(c)
         ELSE /\ Throw(c, Rethrown(c, e))
              /\ UNCHANGED lastError

\* fetch rejects with a failure of its own
FetchRejects(c, e) ==
    /\ pc[c] = "fetch"
    /\ Answers(c)
    /\ retryOnNetworkError(e, attempt[c]) => MayRetry
    /\ hist' = [hist EXCEPT ![c] =
                  Append(@, [kind |-> "reject", status |-> 0, latency |-> Latency(c),
                             error |-> e])]
    /\ Catch(c, e)
    /\ UNCHANGED << now, limiter, attempt, ticket, calls, startedAt, clients, request, result, arg, ret >>

\* (variant) no abort timer is set for the attempt
DeadlineNever(c) ==
    FALSE

\* the timer set by setTimeout(() => controller.abort(), this.REQUEST_TIMEOUT_MS) is due
DeadlineReached(c) ==
    due[c] <= now

\* setTimeout(() => controller.abort(), REQUEST_TIMEOUT_MS) fires: fetch rejects
\* with an AbortError
AbortFires(c) ==
    /\ pc[c] = "fetch"
    /\ DeadlineReached(c)
    /\ hist' = [hist EXCEPT ![c] =
                  Append(@, [kind |-> "abort", status |-> 0, latency |-> Latency(c),
                             error |-> AbortError])]
    /\ Catch(c, AbortError)
    /\ UNCHANGED << now, limiter, attempt, ticket, calls, startedAt, clients, request, result, arg, ret >>

\* (variant) the loop variable is not incremented
NextAttemptStuck(a) ==
    a

\* attempt++ of the for loop
NextAttempt(a) ==
    a + 1

\* attempt <= this.MAX_RETRIES, the condition of the for loop
LoopContinues(a) ==
    a <= MAX_RETRIES

\* the backoff timer fires: continue, attempt++, and the next iteration calls
\* enforceRateLimit; past the loop the function throws
BackoffEnds(c) ==
    /\ pc[c] = "backoff"
    /\ due[c] <= now
    /\ attempt' = [attempt EXCEPT ![c] = NextAttempt(@)]
    /\ IF LoopContinues(NextAttempt(attempt[c]))
       THEN /\ pc' = [pc EXCEPT ![c] = "admit"]
            /\ requestQueue' = Enqueue(ClientOf(c), c)
            /\ ticket' = [ticket EXCEPT ![c] = Len(requestQueue[ClientOf(c)]) + 1]
            /\ UNCHANGED << lastRequestTime, due, response, error, exec, endedAt >>
       ELSE /\ Throw(c, ExhaustedError(lastError[c]))
            /\ UNCHANGED << limiter, ticket >>
    /\ UNCHANGED << now, lastError, calls, hist, startedAt, clients, request, result, arg, ret >>

responseOk(s) ==
    s >= 200 /\ s <= 299

\* const baseError = { error, statusCode, dataflowId, providedFilter }
baseError(statusCode, dataflowId, filter) ==
    [error |-> "OECD API request failed", statusCode |-> statusCode,
     dataflowId |-> dataflowId, providedFilter |-> filter]

\* { ...baseError, ...fields }
With(base, fields) ==
    [x \in DOMAIN base \cup DOMAIN fields |->
        IF x \in DOMAIN fields THEN fields[x] ELSE base[x]]

createDetailedError(statusCode, dataflowId, filter) ==
    LET base == baseError(statusCode, dataflowId, filter)
    IN  CASE statusCode = 400 ->
               With(base,
                 [message |-> "Bad request - the query syntax is invalid",
                  suggestions |->
                    << "Check that the dataflow_id is correct",
                       "Verify the filter syntax follows SDMX format: DIM1.DIM2.DIM3",
                       "Use dots (.) to separate dimensions, empty position means all values" >>,
                  example |-> "query_data({dataflow_id: \"" \o dataflowId
                                \o "\", last_n_observations: 10})"])
          [] statusCode = 404 ->
               With(base,
                 [message |-> "Dataset or filter combination not found",
                  suggestions |->
                    << "Verify \"" \o dataflowId
                          \o "\" exists using search_dataflows or list_dataflows",
                       "Check that the filter values exist in the dataset",
                       "Try querying without filter first to see available data" >>,
                  example |-> "search_dataflows({query: \"" \o dataflowId \o "\"})"])
          [] statusCode = 422 ->
               With(base,
                 [message |-> "Invalid filter format or dimension values",
                  cause |-> "The filter structure does not match the dataset dimensions, or the dimension values do not exist",
                  suggestions |->
                    << "1. Use get_data_structure to see the dimension order for this dataset",
                       "2. Ensure filter matches the exact dimension order",
                       "3. Use valid country codes (ISO 3166-1 alpha-3): SWE, USA, DEU, etc.",
                       "4. For multiple countries use + separator: SWE+NOR+DNK",
                       "5. Empty position (..) means all values for that dimension",
                       "6. Try a simpler query first with just last_n_observations" >>,
                  filterSyntax |->
                    [format |-> "DIM1.DIM2.DIM3.DIM4",
                     example |-> "SWE.B1_GE..",
                     multipleValues |-> "SWE+NOR+DNK.B1_GE..",
                     allValues |-> "Use empty position (..) or omit trailing dimensions"],
                  recommendedFirstStep |->
                    "get_data_structure({dataflow_id: \"" \o dataflowId \o "\"})",
                  simpleQueryExample |->
                    "query_data({dataflow_id: \"" \o dataflowId
                       \o "\", last_n_observations: 10})"])
          [] statusCode = 429 ->
               With(base,
                 [message |-> "Rate limit exceeded - too many requests",
                  suggestions |->
                    << "Wait a few seconds before retrying",
                       "Reduce the frequency of API calls",
                       "The server automatically enforces rate limiting between requests" >>,
                  retryAfter |-> "5 seconds"])
          [] statusCode \in {500, 502, 503} ->
               With(base,
                 [message |-> "OECD server error - temporary issue",
                  suggestions |->
                    << "This is a server-side issue, not a problem with your query",
                       "Wait a moment and try again",
                       "If the problem persists, the OECD API may be under maintenance" >>,
                  checkStatus |-> "https://data.oecd.org/"])
          [] OTHER ->
               With(base,
                 [message |-> "Unexpected error from OECD API",
                  suggestions |->
                    << "Check your query parameters",
                       "Verify the dataflow_id exists",
                       "Try a simpler query first" >>])

\* (variant) the error names the status in a plain message
DetailedErrorPlain(statusCode, dataflowId, filter) ==
    [name |-> "Error", message |-> "OECD API request failed with status",
     statusCode |-> statusCode]

\* throw new Error(JSON.stringify(errorDetails)): the message of the error is the
\* JSON text of the diagnostic; details is what that text encodes
DetailedError(statusCode, dataflowId, filter) ==
    [name |-> "Error", message |-> "JSON.stringify(errorDetails)",
     statusCode |-> statusCode,
     details |-> createDetailedError(statusCode, dataflowId, filter)]

\* queryData resumes with the response of fetchWithRetry
QueryDataResume(c) ==
    /\ pc[c] = "returned"
    /\ request[c].operation = "queryData"
    /\ IF responseOk(response[c])
       THEN /\ pc' = [pc EXCEPT ![c] = "done"]
            /\ result' = [result EXCEPT ![c] = [kind |-> "observations"]]
            /\ UNCHANGED error
       ELSE /\ pc' = [pc EXCEPT ![c] = "failed"]
            /\ error' = [error EXCEPT ![c] =
                          DetailedError(response[c], request[c].dataflowId,
                                        request[c].filter)]
            /\ UNCHANGED result
    /\ UNCHANGED << now, limiter, attempt, ticket, due, lastError, response,
                    exec, calls, hist, startedAt, endedAt, clients, request, arg, ret >>

\* (variant) an exception of the try block leaves getDataStructure
StructureCatchRethrown(dataflowId) ==
    Threw(TypeError)

\* catch (error) { console.warn(...); return this.getFallbackStructure(dataflowId); }
StructureCatch(dataflowId) ==
    Returned([kind |-> "structure", live |-> FALSE,
              value |-> getFallbackStructure(dataflowId)])

\* const data = await response.json(); return this.parseDataStructure(dataflowId, data)
\* inside the try block: a body that is not JSON makes json() reject
StructureOfBody(dataflowId, body) ==
    IF ~body.json THEN StructureCatch(dataflowId)
    ELSE LET parsed == parseDataStructure(dataflowId, body.data)
         IN  IF parsed.threw THEN StructureCatch(dataflowId)
             ELSE Returned([kind |-> "structure", live |-> TRUE, value |-> parsed.value])

\* getDataStructure resumes with the response of fetchWithRetry, whose body is
\* body, or in its catch block with what fetchWithRetry threw; a response that is
\* not ok is thrown into the same catch block
GetDataStructureResume(c, body) ==
    /\ pc[c] \in {"returned", "caught"}
    /\ request[c].operation = "getDataStructure"
    /\ LET structure == IF pc[c] = "returned" /\ responseOk(response[c])
                        THEN StructureOfBody(request[c].dataflowId, body)
                        ELSE StructureCatch(request[c].dataflowId)
       IN  IF structure.threw
           THEN /\ pc' = [pc EXCEPT ![c] = "failed"]
                /\ error' = [error EXCEPT ![c] = structure.error]
                /\ UNCHANGED result
           ELSE /\ pc' = [pc EXCEPT ![c] = "done"]
                /\ result' = [result EXCEPT ![c] =
                                With(structure.value,
                                     [read |-> IF pc[c] = "returned" /\ responseOk(response[c])
                                               THEN body ELSE NoBody])]
                /\ UNCHANGED error
    /\ UNCHANGED << now, limiter, attempt, ticket, due, lastError, response,
                    exec, calls, hist, startedAt, endedAt, clients, request, arg, ret >>

(***************************************************************************)
(* The clock.  A due timer fires and a runnable continuation runs before   *)
(* time passes; time then passes to the next instant at which something    *)
(* can happen.                                                             *)
(***************************************************************************)
Runnable ==
    \/ \E this \in Instances : \E i \in 1..Len(requestQueue[this]) :
          \/ requestQueue[this][i].st = "queued" /\ QueueTurn(this, i)
          \/ requestQueue[this][i].st = "sleeping" /\ requestQueue[this][i].due <= now
    \/ \E c \in Callers :
          \/ pc[c] = "admit" /\ AdmissionResolved(c)
          \/ pc[c] \in {"fetch", "backoff"} /\ due[c] <= now
          \/ pc[c] \in {"returned", "caught"}

NextInstants ==
    { t \in
        UNION { { requestQueue[this][i].due :
                     i \in { j \in 1..Len(requestQueue[this]) :
                                requestQueue[this][j].st = "sleeping" } } :
                  this \in Instances }
        \cup { due[c] : c \in { d \in Callers : pc[d] \in {"fetch", "backoff"} } }
        \cup { (due[c] - REQUEST_TIMEOUT_MS) + l :
                  c \in { d \in Callers : pc[d] = "fetch" }, l \in Latencies }
        \cup { StartClock + o :
                  o \in { p \in StartOffsets : \E c \in clients : pc[c] = "idle" } }
      : t > now }

\* the remote answers a pending fetch at the latest now (it may not let it time out)
MustAnswer ==
    \E c \in Callers : Overdue(c)

Advance ==
    /\ ~Runnable
    /\ ~MustAnswer
    /\ NextInstants # {}
    /\ now' = Min(NextInstants)
    /\ UNCHANGED << limiter, pc, attempt, ticket, due, lastError, response,
                    error, exec, calls, hist, startedAt, endedAt, clients, request, result, arg, ret >>

Next ==
    \/ \E c \in Callers : QueryData(c)
    \/ \E this \in Instances : \E i \in 1..Len(requestQueue[this]) :
          EnforceRateLimitTurn(this, i)
    \/ \E this \in Instances : \E i \in 1..Len(requestQueue[this]) :
          EnforceRateLimitWake(this, i)
    \/ \E c \in Callers : Fetch(c)
    \/ \E c \in Callers, s \in Statuses : FetchResponds(c, s)
    \/ \E c \in Callers, e \in FetchErrors : FetchRejects(c, e)
    \/ \E c \in Callers : AbortFires(c)
    \/ \E c \in Callers : BackoffEnds(c)
    \/ \E c \in Callers : QueryDataResume(c)
    \/ Advance

Spec == Init /\ [][Next]_vars

\* the event loop runs what is runnable and fires the timers that are due
FairSpec == Spec /\ WF_vars(Next)

(***************************************************************************)
(* Two client instances: each logical call is made on either of them.      *)
(***************************************************************************)
NextInstances ==
    \/ \E this \in Instances, c \in Callers : QueryDataWith(this, c, "QNA", all)
    \/ \E this \in Instances : \E i \in 1..Len(requestQueue[this]) :
          EnforceRateLimitTurn(this, i)
    \/ \E this \in Instances : \E i \in 1..Len(requestQueue[this]) :
          EnforceRateLimitWake(this, i)
    \/ \E c \in Callers : Fetch(c)
    \/ \E c \in Callers, s \in Statuses : FetchResponds(c, s)
    \/ \E c \in Callers, e \in FetchErrors : FetchRejects(c, e)
    \/ \E c \in Callers : AbortFires(c)
    \/ \E c \in Callers : BackoffEnds(c)
    \/ \E c \in Callers : QueryDataResume(c)
    \/ Advance

SpecInstances == Init /\ [][NextInstances]_vars

(***************************************************************************)
(* The operations with their arguments: one call of queryData or of        *)
(* getDataStructure on a new client, with any dataflow id and filter of    *)
(* the sets below.                                                         *)
(***************************************************************************)
\* length of the filters built from FilterSample
MaxFilterLen == 3

DataflowIds == {"QNA", "MEI", "UNKNOWN_ID", "qna"}

FilterSample == {"A", "/", ";"}

RECURSIVE Strings(_, _)
\* the strings of length n over alphabet
Strings(alphabet, n) ==
    IF n = 0 THEN { << >> }
    ELSE { << ch >> \o t : ch \in alphabet, t \in Strings(alphabet, n - 1) }

StringsUpTo(alphabet, n) == UNION { Strings(alphabet, k) : k \in 0..n }

USA_GDP == << "U", "S", "A", ".", "G", "D", "P", ".", "." >>
USA_CAN_GDP == << "U", "S", "A", "+", "C", "A", "N", ".", "G", "D", "P" >>
A_B_C_D == << "A", ".", "B", ".", "C", ":", "D" >>
USA_rm == << "U", "S", "A", ";", "r", "m", " ", "-", "r", "f", " ", "/" >>
http_x == << "h", "t", "t", "p", ":", "/", "/", "x" >>

Filters ==
    { all, USA_GDP, USA_CAN_GDP, A_B_C_D, USA_rm, http_x }
        \cup { f \in StringsUpTo(FilterSample, MaxFilterLen) : ~FilterPatternTest(f) }

\* the bodies a response comes with: text that is not JSON, and JSON with the
\* dimension definitions in the primary shape, in the legacy shape, in both, in
\* neither, or malformed
NotJson == [json |-> FALSE, data |-> Undefined]

Json(data) == [json |-> TRUE, data |-> data]

ResponseBodies ==
    { NotJson,
      Json(Null),
      Json(EmptyObject),
      Json(WithDataSets(Arr(<< >>))),
      Json(PrimaryShape(Arr(<< >>), << REF_AREA, MEASURE >>, << TIME_PERIOD >>)),
      Json(LegacyShape(Arr(<< >>), << REF_AREA >>, << TIME_PERIOD >>)),
      Json(PrimaryShape(Arr(<< >>), << >>, << >>)),
      Json(PrimaryShape(Arr(<< >>), << Null >>, << TIME_PERIOD >>)),
      Json(PrimaryShape(Arr(<< >>), << Obj([id |-> Str("REF_AREA"), values |-> Num(5)]) >>,
                        << >>)),
      Json(Obj([data |-> Obj([structures |->
                  Arr(<< Obj([dimensions |-> Obj([series |-> Num(5)])]) >>)])])) }

InitFacade ==
    /\ clients = {1}
    /\ NewClient
    /\ arg = NoValue
    /\ ret = NoValue

NextFacade ==
    \/ \E c \in Callers, id \in DataflowIds, f \in Filters :
          QueryDataWith(client1, c, id, f)
    \/ \E c \in Callers, id \in DataflowIds : GetDataStructure(client1, c, id)
    \/ \E this \in Instances : \E i \in 1..Len(requestQueue[this]) :
          EnforceRateLimitTurn(this, i)
    \/ \E this \in Instances : \E i \in 1..Len(requestQueue[this]) :
          EnforceRateLimitWake(this, i)
    \/ \E c \in Callers : Fetch(c)
    \/ \E c \in Callers, s \in Statuses : FetchResponds(c, s)
    \/ \E c \in Callers, e \in FetchErrors : FetchRejects(c, e)
    \/ \E c \in Callers : AbortFires(c)
    \/ \E c \in Callers : BackoffEnds(c)
    \/ \E c \in Callers : QueryDataResume(c)
    \/ \E c \in Callers, body \in ResponseBodies : GetDataStructureResume(c, body)
    \/ Advance

SpecFacade == InitFacade /\ [][NextFacade]_vars

(***************************************************************************)
(* parseDataObservations and parseSeriesKeyWithMetadata applied on their   *)
(* own, as the tests call them: the payloads.                              *)
(***************************************************************************)
\* observations per series of the payloads built by shape
MaxObs == 2

\* the payload and the limit of the test of the client-side limit
ManyObservations == 200
TestedLimit == 50

RECURSIVE NumChars(_)
\* i.toString()
NumChars(n) ==
    IF n < 10 THEN << Digits[n + 1] >> ELSE NumChars(n \div 10) \o << Digits[(n % 10) + 1] >>

\* a series entry with n observations keyed "0" .. n-1, the one keyed k
\* carrying the value first + k; the keys are inserted downwards when reversed
SeriesOf(key, n, first, reversed) ==
    [k |-> key,
     v |-> Obj([observations |->
               Dict([i \in 1..n |->
                       LET j == IF reversed THEN n - i ELSE i - 1
                       IN  [k |-> NumChars(j), v |-> Arr(<< Num(first + j) >>)]])])]

Sum2(counts) == IF Len(counts) = 0 THEN 0 ELSE IF Len(counts) = 1 THEN counts[1]
                ELSE counts[1] + counts[2]

\* a data set whose series have the numbers of observations in counts (at most two
\* series); its values are first, first + 1, ... in the order of the walk
DatasetOf(counts, first, reversed) ==
    Obj([series |->
           Dict([s \in 1..Len(counts) |->
                   SeriesOf(<< "0", ":", Digits[s] >>, counts[s],
                            IF s = 1 THEN first ELSE first + counts[1], reversed)])])

ObsCounts == 0..MaxObs

DatasetShapes ==
    { << >> } \cup { << a >> : a \in ObsCounts } \cup { << a, b >> : a, b \in ObsCounts }

PayloadShapes ==
    { << d1 >> : d1 \in DatasetShapes } \cup { << d1, d2 >> : d1, d2 \in DatasetShapes }

\* the number of observations of a payload of that shape
CountOf(shape) == Sum2([i \in 1..Len(shape) |-> Sum2(shape[i])])

\* the payload of that shape, values 1, 2, ... in the order of the walk
ShapedPayload(shape, reversed) ==
    PrimaryShape(
        Arr([i \in 1..Len(shape) |->
                DatasetOf(shape[i], IF i = 1 THEN 1 ELSE 1 + Sum2(shape[1]), reversed)]),
        << REF_AREA, MEASURE >>, << TIME_PERIOD >>)

\* the limits: below, at and above the numbers of observations, and the tested one
Limits == { Num(n) : n \in 1..(2 * MaxObs + 1) } \cup { Num(TestedLimit) }

ShapedInputs ==
    { [fn |-> "parseDataObservations", family |-> "shaped", count |-> CountOf(shape),
       payload |-> ShapedPayload(shape, reversed), limit |-> limit] :
      shape \in PayloadShapes \cup { << << ManyObservations >> >> },
      reversed \in BOOLEAN, limit \in Limits }

\* no limit: the argument is left out, or is 0
NoLimits == { Undefined, Num(0) }

UnlimitedInputs ==
    { [fn |-> "parseDataObservations", family |-> "unlimited", count |-> CountOf(shape),
       payload |-> ShapedPayload(shape, reversed), limit |-> limit] :
      shape \in PayloadShapes \cup { << << ManyObservations >> >> },
      reversed \in BOOLEAN, limit \in NoLimits }

\* tuples per payload built from known tuples
MaxTuples == 2

\* dimension definitions as plain data: the id and the ordered value ids
AreaDim == [id |-> "REF_AREA", values |-> << "USA", "CAN" >>]
MeasureDim == [id |-> "MEASURE", values |-> << "GDP", "CPI" >>]
TimeDim == [id |-> "TIME_PERIOD", values |-> << "2020", "2021", "2022" >>]

Definitions(dims) == [i \in 1..Len(dims) |-> DimDef(dims[i].id, dims[i].values)]

\* every combination of one value per dimension, as a map from dimension id to value id
Combinations(dims) ==
    { m \in [{ dims[i].id : i \in 1..Len(dims) } ->
                UNION { Range(dims[i].values) : i \in 1..Len(dims) }] :
        \A i \in 1..Len(dims) : m[dims[i].id] \in Range(dims[i].values) }

IndexOf(seq, x) == (CHOOSE i \in 1..Len(seq) : seq[i] = x) - 1

RECURSIVE WireKey(_, _)
\* the positional key of map m: the indices of its values, joined by ':'
WireKey(m, dims) ==
    IF Len(dims) = 1 THEN NumChars(IndexOf(dims[1].values, m[dims[1].id]))
    ELSE NumChars(IndexOf(dims[1].values, m[dims[1].id])) \o << ":" >>
             \o WireKey(m, Tail(dims))

RECURSIVE SetToSeq(_)
SetToSeq(S) ==
    IF S = {} THEN << >> ELSE LET x == CHOOSE y \in S : TRUE IN << x >> \o SetToSeq(S \ {x})

\* the known value of the tuple with dimension map m
KnownValue(m, dims) == 100 + 10 * IndexOf(SetToSeq(Combinations(dims)), m)

\* the data set holding the tuples: one series per series key, one observation per tuple
BuiltDataset(tuples, seriesDims, obsDim) ==
    Obj([series |->
           Dict([s \in 1..Cardinality({ WireKey(t.dimensions, seriesDims) : t \in tuples }) |->
                   LET key == SetToSeq({ WireKey(t.dimensions, seriesDims) : t \in tuples })[s]
                   IN  [k |-> key,
                        v |-> Obj([observations |->
                                 Dict(SetToSeq({ [k |-> WireKey(t.dimensions, << obsDim >>),
                                                  v |-> Arr(<< Num(t.value) >>)] :
                                                 t \in { u \in tuples :
                                                           WireKey(u.dimensions, seriesDims)
                                                               = key } }))])]])])

\* the sets of at most MaxTuples known tuples over the dimensions
TupleSets(seriesDims, obsDim) ==
    { { [dimensions |-> m, value |-> KnownValue(m, seriesDims \o << obsDim >>)] : m \in ms } :
      ms \in { c \in SUBSET Combinations(seriesDims \o << obsDim >>) :
                 Cardinality(c) <= MaxTuples } }

BuiltPayload(tuples, seriesDims, legacy) ==
    IF legacy
    THEN LegacyShape(Arr(<< BuiltDataset(tuples, seriesDims, TimeDim) >>),
                     Definitions(seriesDims), Definitions(<< TimeDim >>))
    ELSE PrimaryShape(Arr(<< BuiltDataset(tuples, seriesDims, TimeDim) >>),
                      Definitions(seriesDims), Definitions(<< TimeDim >>))

BuiltInputs ==
    UNION { { [fn |-> "parseDataObservations", family |-> "built", tuples |-> tuples,
               payload |-> BuiltPayload(tuples, seriesDims, legacy), limit |-> Undefined] :
              tuples \in TupleSets(seriesDims, TimeDim), legacy \in BOOLEAN } :
            seriesDims \in { << AreaDim >>, << AreaDim, MeasureDim >> } }

\* an object without properties
\* a payload with one data set of these series entries
WithSeries(entries) ==
    PrimaryShape(Arr(<< Obj([series |-> Dict(entries)]) >>),
                 << REF_AREA, MEASURE >>, << TIME_PERIOD >>)

GoodSeries == SeriesOf(<< "0", ":", "0" >>, 1, 7, FALSE)

BadSeries(v) == [k |-> << "0", ":", "1" >>, v |-> v]

\* the malformed payloads: shape names the defect, empty tells whether nothing is
\* left to decode (no well-formed series comes with the defect, or the walk throws)
MalformedPayloads ==
    { [shape |-> "payload null", empty |-> TRUE, payload |-> Null],
      [shape |-> "payload undefined", empty |-> TRUE, payload |-> Undefined],
      [shape |-> "data missing", empty |-> TRUE, payload |-> EmptyObject],
      [shape |-> "data null", empty |-> TRUE, payload |-> Obj([data |-> Null])],
      [shape |-> "dataSets missing", empty |-> TRUE, payload |-> Obj([data |-> EmptyObject])],
      [shape |-> "dataSets null", empty |-> TRUE, payload |-> WithDataSets(Null)],
      [shape |-> "dataSets empty", empty |-> TRUE, payload |-> WithDataSets(Arr(<< >>))],
      [shape |-> "dataSets not an array", empty |-> TRUE, payload |-> WithDataSets(Num(5))],
      [shape |-> "dataSets not an array", empty |-> TRUE,
       payload |-> WithDataSets(EmptyObject)],
      [shape |-> "data set null", empty |-> TRUE, payload |-> WithDataSets(Arr(<< Null >>))],
      [shape |-> "data set without series", empty |-> TRUE,
       payload |-> WithDataSets(Arr(<< EmptyObject >>))],
      [shape |-> "data set without series", empty |-> TRUE,
       payload |-> WithDataSets(Arr(<< Obj([series |-> Null]) >>))],
      [shape |-> "series entry null", empty |-> TRUE,
       payload |-> WithSeries(<< BadSeries(Null) >>)],
      [shape |-> "series entry null", empty |-> TRUE,
       payload |-> WithSeries(<< GoodSeries, BadSeries(Null) >>)],
      [shape |-> "series entry null", empty |-> TRUE,
       payload |-> WithSeries(<< BadSeries(Null), GoodSeries >>)],
      [shape |-> "series entry not an object", empty |-> TRUE,
       payload |-> WithSeries(<< BadSeries(Num(5)) >>)],
      [shape |-> "series entry not an object", empty |-> TRUE,
       payload |-> WithSeries(<< BadSeries(Str("x")) >>)],
      [shape |-> "series entry not an object", empty |-> FALSE,
       payload |-> WithSeries(<< GoodSeries, BadSeries(Num(5)) >>)],
      [shape |-> "series entry without observations", empty |-> TRUE,
       payload |-> WithSeries(<< BadSeries(EmptyObject) >>)],
      [shape |-> "series entry without observations", empty |-> TRUE,
       payload |-> WithSeries(<< BadSeries(Obj([observations |-> Null])) >>)],
      [shape |-> "dimension without values", empty |-> TRUE,
       payload |-> PrimaryShape(Arr(<< Obj([series |-> Dict(<< GoodSeries >>)]) >>),
                                << Obj([id |-> Str("REF_AREA")]) >>, << TIME_PERIOD >>)] }

MalformedInputs ==
    { [fn |-> "parseDataObservations", family |-> "malformed", shape |-> p.shape,
       empty |-> p.empty, payload |-> p.payload, limit |-> limit] :
      p \in MalformedPayloads, limit \in { Undefined, Num(1) } }

\* payloads in which a series entry that is null or undefined follows well-formed
\* ones: a first data set with one series of a observations, then a data set with a
\* series of b observations, the bad entry and one more well-formed series
InterruptedPayload(a, b, bad) ==
    PrimaryShape(
        Arr(<< Obj([series |-> Dict(<< SeriesOf(<< "0", ":", "0" >>, a, 1, FALSE) >>)]),
               Obj([series |-> Dict(<< SeriesOf(<< "0", ":", "0" >>, b, 1 + a, FALSE),
                                       BadSeries(bad),
                                       SeriesOf(<< "1", ":", "0" >>, 1, 1 + a + b, FALSE) >>)]) >>),
        << REF_AREA, MEASURE >>, << TIME_PERIOD >>)

InterruptedInputs ==
    { [fn |-> "parseDataObservations", family |-> "interrupted", before |-> a + b,
       payload |-> InterruptedPayload(a, b, bad), limit |-> limit] :
      a \in ObsCounts, b \in ObsCounts, bad \in { Null, Undefined },
      limit \in NoLimits \cup Limits }

\* parts of the keys given to parseSeriesKeyWithMetadata
MaxKeyParts == 3

\* a dimension one of whose values has an empty id
FreqDim == [id |-> "FREQ", values |-> << "A", "" >>]

\* raw indices: in and out of the value lists, not a number, empty, digits then text
RawIndices == { << "0" >>, << "1" >>, << "2" >>, << "x" >>, << >>, << "1", "x" >> }

RECURSIVE Join(_, _)
\* parts.join(sep)
Join(parts, sep) ==
    IF Len(parts) = 1 THEN parts[1] ELSE parts[1] \o << sep >> \o Join(Tail(parts), sep)

SeriesKeyInputs ==
    { [fn |-> "parseSeriesKeyWithMetadata", key |-> Join(parts, ":"), parts |-> parts,
       dims |-> dims] :
      parts \in UNION { [1..n -> RawIndices] : n \in 1..MaxKeyParts },
      dims \in { << >>, << AreaDim >>, << AreaDim, MeasureDim >>, << FreqDim, AreaDim >> } }

\* how a body carries the dimension definitions in the primary shape: not at all
\* (no data.structures, an empty data.structures, a first structure without
\* dimensions) or with these series and observation definitions
PrimaryChoices ==
    { [kind |-> k, series |-> << >>, observation |-> << >>] :
        k \in {"missing", "empty", "bare"} }
    \cup { [kind |-> "present", series |-> sd, observation |-> od] :
             sd \in { << >>, << AreaDim >>, << AreaDim, MeasureDim >> },
             od \in { << >>, << TimeDim >> } }

\* and in the legacy shape
LegacyChoices ==
    { [kind |-> "missing", series |-> << >>, observation |-> << >>] }
    \cup { [kind |-> "present", series |-> sd, observation |-> od] :
             sd \in { << >>, << FreqDim >> }, od \in { << >>, << TimeDim >> } }

\* { series: [...], observation: [...] }
DimensionLists(choice) ==
    Obj([series |-> Arr(Definitions(choice.series)),
         observation |-> Arr(Definitions(choice.observation))])

\* the body with both shapes as chosen
StructurePayload(primary, legacy) ==
    LET data ==
            CASE primary.kind = "missing" -> EmptyObject
              [] primary.kind = "empty" -> Obj([structures |-> Arr(<< >>)])
              [] primary.kind = "bare" -> Obj([structures |-> Arr(<< EmptyObject >>)])
              [] primary.kind = "present" ->
                   Obj([structures |->
                          Arr(<< Obj([dimensions |-> DimensionLists(primary)]) >>)])
    IN  IF legacy.kind = "missing" THEN Obj([data |-> data])
        ELSE Obj([data |-> data,
                  structure |-> Obj([dimensions |-> DimensionLists(legacy)])])

StructureInputs ==
    { [fn |-> "parseDataStructure", dataflowId |-> id, primary |-> p, legacy |-> l,
       payload |-> StructurePayload(p, l)] :
        id \in {"QNA", "MEI"}, p \in PrimaryChoices, l \in LegacyChoices }

DecodeInputs ==
    ShapedInputs \cup UnlimitedInputs \cup BuiltInputs \cup MalformedInputs
        \cup InterruptedInputs \cup SeriesKeyInputs \cup StructureInputs

InitDecode ==
    /\ clients = {}
    /\ NewClient
    /\ arg \in DecodeInputs
    /\ ret = NotCalled

\* client.parseDataObservations(payload, limit)
ParseDataObservations ==
    /\ ret = NotCalled
    /\ arg.fn = "parseDataObservations"
    /\ ret' = parseDataObservations(arg.payload, arg.limit)
    /\ UNCHANGED << now, limiter, pc, attempt, ticket, due, lastError, response, error,
                    exec, calls, hist, startedAt, endedAt, clients, request, result, arg >>

\* client.parseSeriesKeyWithMetadata(key, seriesDimensions)
ParseSeriesKeyWithMetadata ==
    /\ ret = NotCalled
    /\ arg.fn = "parseSeriesKeyWithMetadata"
    /\ ret' = parseSeriesKeyWithMetadata(arg.key, Arr(Definitions(arg.dims)))
    /\ UNCHANGED << now, limiter, pc, attempt, ticket, due, lastError, response, error,
                    exec, calls, hist, startedAt, endedAt, clients, request, result, arg >>

\* client.parseDataStructure(dataflowId, data)
ParseDataStructure ==
    /\ ret = NotCalled
    /\ arg.fn = "parseDataStructure"
    /\ ret' = parseDataStructure(arg.dataflowId, arg.payload)
    /\ UNCHANGED << now, limiter, pc, attempt, ticket, due, lastError, response, error,
                    exec, calls, hist, startedAt, endedAt, clients, request, result, arg >>

NextDecode ==
    \/ ParseDataObservations
    \/ ParseSeriesKeyWithMetadata
    \/ ParseDataStructure

SpecDecode == InitDecode /\ [][NextDecode]_vars

(***************************************************************************)
(* sanitizeFilter applied on its own, as the tests call it.                *)
(***************************************************************************)
\* length of the filters built from SanitizeSample
MaxSanitizeLen == 2

\* the longest filter the tests expect sanitizeFilter to accept
TestedMaxLength == 200

SanitizeSample == { "A", "z", "9", ".", "_", "-", ":", "+", "*", "/", " ", ";", "%" }

Repeat(ch, n) == [i \in 1..n |-> ch]

SanitizeInputs ==
    StringsUpTo(SanitizeSample, MaxSanitizeLen)
        \cup { USA_GDP, USA_CAN_GDP, A_B_C_D, USA_rm, http_x,
               Repeat("A", TestedMaxLength), Repeat("A", TestedMaxLength + 1) }

InitSanitize ==
    /\ clients = {}
    /\ NewClient
    /\ arg \in SanitizeInputs
    /\ ret = NotCalled

\* client.sanitizeFilter(arg)
SanitizeFilter ==
    /\ ret = NotCalled
    /\ ret' = sanitizeFilter(arg)
    /\ UNCHANGED << now, limiter, pc, attempt, ticket, due, lastError, response, error,
                    exec, calls, hist, startedAt, endedAt, clients, request, result, arg >>

NextSanitize ==
    SanitizeFilter

SpecSanitize == InitSanitize /\ [][NextSanitize]_vars

(***************************************************************************)
(* createDetailedError applied on its own to every status a response can   *)
(* carry.                                                                  *)
(***************************************************************************)
\* the lowest and the highest status of a response
MinStatus == 100
MaxStatus == 599

DetailedErrorInputs ==
    { [statusCode |-> sc, dataflowId |-> id, filter |-> f] :
        sc \in MinStatus..MaxStatus, id \in {"QNA", "MEI"}, f \in {all, USA_GDP} }

InitDetailedError ==
    /\ clients = {}
    /\ NewClient
    /\ arg \in DetailedErrorInputs
    /\ ret = NotCalled

\* client.createDetailedError(statusCode, dataflowId, filter)
CreateDetailedError ==
    /\ ret = NotCalled
    /\ ret' = Returned(createDetailedError(arg.statusCode, arg.dataflowId, arg.filter))
    /\ UNCHANGED << now, limiter, pc, attempt, ticket, due, lastError, response, error,
                    exec, calls, hist, startedAt, endedAt, clients, request, result, arg >>

NextDetailedError ==
    CreateDetailedError

SpecDetailedError == InitDetailedError /\ [][NextDetailedError]_vars

TypeOK ==
    /\ now \in Nat
    /\ \A this \in Instances : lastRequestTime[this] \in Nat
    /\ clients \subseteq Callers
    /\ \A c \in Callers :
          /\ pc[c] \in {"idle", "admit", "fetch", "backoff", "returned", "caught", "done", "failed"}
          /\ exec[c] \in {"none", "running", "returned", "threw"}
          /\ attempt[c] \in 0..MAX_RETRIES
          /\ Len(hist[c]) <= MAX_RETRIES + 1
    /\ \A this \in Instances : \A i \in 1..Len(requestQueue[this]) :
          /\ requestQueue[this][i].owner \in clients
          /\ requestQueue[this][i].st \in {"queued", "sleeping", "done"}

(***************************************************************************)
(* Vocabulary of the properties.                                           *)
(***************************************************************************)
Entries == 1..Len(requestQueue[client1])

\* the enforceRateLimit() calls made by logical call c
Admissions(c) == { i \in Entries : requestQueue[client1][i].owner = c }

Admitted(i) == requestQueue[client1][i].st = "done"

\* fetchWithRetry of call c returned or threw
ExecEnded(c) == exec[c] \in {"returned", "threw"}

Last(h) == h[Len(h)]

IsStatus(o, s) == o.kind = "response" /\ o.status = s

Is5xx(o) == o.kind = "response" /\ o.status >= 500

Is4xx(o) == o.kind = "response" /\ o.status >= 400 /\ o.status <= 499

\* every attempt of call c so far ran into the deadline
OnlyAborts(c) == \A k \in 1..Len(hist[c]) : hist[c][k].kind = "abort"

\* every answer call c got so far arrived at once
Instant(c) == \A k \in 1..Len(hist[c]) : hist[c][k].latency = 0

(***************************************************************************)
(* C1: any two completed admissions of one client have timestamps (the     *)
(* values written to lastRequestTime) at least MIN_REQUEST_INTERVAL_MS     *)
(* = 1500 ms apart, whether the admissions come from one call, from        *)
(* concurrent calls or from retries.                                       *)
(***************************************************************************)
C1_AdmissionSpacing ==
    \A i, j \in Entries :
        (i < j /\ Admitted(i) /\ Admitted(j)) =>
            /\ requestQueue[client1][j].stamp - requestQueue[client1][i].stamp >= 1500
            /\ requestQueue[client1][j].stamp - requestQueue[client1][i].stamp >= MIN_REQUEST_INTERVAL_MS

\* three completed admissions: a call, a concurrent call, and a retry of the first
C1_Witness ==
    \E i, j, k \in Entries :
        /\ i < j /\ j < k
        /\ Admitted(i) /\ Admitted(j) /\ Admitted(k)
        /\ requestQueue[client1][i].owner # requestQueue[client1][j].owner
        /\ \E a, b \in {i, j, k} : a # b /\ requestQueue[client1][a].owner = requestQueue[client1][b].owner

(***************************************************************************)
(* C2: admissions are granted in the order enforceRateLimit() was called:  *)
(* a continuation has begun only if every admission called before it is    *)
(* stamped and resolved, so at most one continuation is under way.         *)
(***************************************************************************)
C2_AdmissionFIFO ==
    /\ \A i, j \in Entries :
          (i < j /\ requestQueue[client1][j].st # "queued") => Admitted(i)
    /\ Cardinality({ i \in Entries : requestQueue[client1][i].st = "sleeping" }) <= 1

\* one admission is suspended on its timer while a later call of another
\* logical call waits behind it
C2_Witness ==
    \E i, j \in Entries :
        /\ i < j
        /\ requestQueue[client1][i].st = "sleeping"
        /\ requestQueue[client1][j].st = "queued"
        /\ requestQueue[client1][i].owner # requestQueue[client1][j].owner

(***************************************************************************)
(* C3: every network call of fetchWithRetry, the first and each retry, has *)
(* an admission of its own that resolved before the call was issued, and a *)
(* finished fetchWithRetry has consumed exactly as many admissions as it   *)
(* issued network calls.                                                   *)
(***************************************************************************)
C3_AdmissionPerCall ==
    \A c \in Callers :
        /\ \A k \in 1..Len(calls[c]) :
              LET t == calls[c][k].ticket
              IN  /\ t \in Admissions(c)
                  /\ Admitted(t)
                  /\ requestQueue[client1][t].stamp <= calls[c][k].at
                  /\ \A m \in 1..Len(calls[c]) : m # k => calls[c][m].ticket # t
        /\ Len(calls[c]) <= Cardinality(Admissions(c))
        /\ Cardinality(Admissions(c)) <= Len(calls[c]) + 1
        /\ ExecEnded(c) => Cardinality(Admissions(c)) = Len(calls[c])

\* a finished fetchWithRetry that retried
C3_Witness ==
    \E c \in Callers : ExecEnded(c) /\ Len(calls[c]) >= 2 /\ Cardinality(clients) = 2

(***************************************************************************)
(* C4: against a remote answering 500, 500, 200, fetchWithRetry goes on    *)
(* after each 500 and returns the 200 response after exactly 3 network     *)
(* calls and exactly 3 admissions.                                         *)
(***************************************************************************)
Script500_500_200 == << 500, 500, 200 >>

\* the outcomes of call c so far are the first answers of the script
FollowsScript(c) ==
    /\ Len(hist[c]) >= 1
    /\ Len(hist[c]) <= Len(Script500_500_200)
    /\ \A k \in 1..Len(hist[c]) : IsStatus(hist[c][k], Script500_500_200[k])

C4_SucceedsOnThirdAttempt ==
    \A c \in Callers :
        FollowsScript(c) =>
            IF Len(hist[c]) = 3
            THEN /\ exec[c] = "returned"
                 /\ response[c] = 200
                 /\ Len(calls[c]) = 3
                 /\ Cardinality(Admissions(c)) = 3
                 /\ \A i \in Admissions(c) : Admitted(i)
            ELSE exec[c] = "running"

C4_Witness ==
    \E c \in Callers :
        FollowsScript(c) /\ Len(hist[c]) = 3 /\ pc[c] = "done" /\ response[c] = 200

(***************************************************************************)
(* C5 (as stated): with the 500, 500, 200 remote answering at once and the *)
(* limiter idle, fetchWithRetry returns 1000 + 2000 = 3000 ms after it was *)
(* called.                                                                 *)
(***************************************************************************)
\* call c ran alone on a new client, got 500, 500, 200 at once, and returned
ScriptedRunAlone(c) ==
    /\ clients = {c}
    /\ FollowsScript(c)
    /\ Len(hist[c]) = 3
    /\ Instant(c)
    /\ ExecEnded(c)

C5_ElapsedIsBackoffOnly ==
    \A c \in Callers :
        ScriptedRunAlone(c) => endedAt[c] - startedAt[c] = 3000

(***************************************************************************)
(* C5 (amended): in that run fetchWithRetry returns 3500 ms after it was   *)
(* called: the backoff delays of 1000 ms and 2000 ms plus the 500 ms the   *)
(* limiter holds the second attempt, 1000 ms after the first admission, to *)
(* keep the 1500 ms spacing.                                               *)
(***************************************************************************)
C5_ElapsedIsBackoffPlusLimiter ==
    \A c \in Callers :
        ScriptedRunAlone(c) =>
            /\ endedAt[c] - startedAt[c] = 3500
            /\ calls[c][2].at - calls[c][1].at = 1500
            /\ calls[c][3].at - calls[c][2].at = 2000

C5_Witness ==
    \E c \in Callers : ScriptedRunAlone(c) /\ pc[c] = "done"

(***************************************************************************)
(* C6: whatever the outcomes of its attempts, one fetchWithRetry issues at *)
(* most MAX_RETRIES + 1 = 4 network calls.                                 *)
(***************************************************************************)
C6_AtMostFourCalls ==
    \A c \in Callers :
        /\ Len(calls[c]) <= 4
        /\ Len(calls[c]) <= MAX_RETRIES + 1

\* a fetchWithRetry that used all four calls, with outcomes of several kinds
C6_Witness ==
    \E c \in Callers :
        /\ ExecEnded(c)
        /\ Len(calls[c]) = 4
        /\ \E k, m \in 1..Len(hist[c]) : hist[c][k].kind # hist[c][m].kind

(***************************************************************************)
(* C7: when every attempt runs into the 30 s deadline, fetchWithRetry goes *)
(* on until the fourth attempt and then throws the timeout error ('OECD    *)
(* API request timed out after 30 seconds'); it never returns a response   *)
(* and never throws another error.                                         *)
(***************************************************************************)
C7_AllTimeoutsRaiseTimeout ==
    \A c \in Callers :
        (Len(hist[c]) >= 1 /\ OnlyAborts(c)) =>
            IF Len(hist[c]) = MAX_RETRIES + 1
            THEN /\ exec[c] = "threw"
                 /\ pc[c] = "failed"
                 /\ response[c] = 0
                 /\ error[c].message = "OECD API request timed out after 30 seconds"
                 /\ error[c] = TimeoutError
            ELSE exec[c] = "running"

C7_Witness ==
    \E c \in Callers :
        OnlyAborts(c) /\ Len(hist[c]) = MAX_RETRIES + 1 /\ exec[c] = "threw"

(***************************************************************************)
(* C8 (as stated): against a remote that never answers, queryData (let     *)
(* through by the limiter at once) has rejected with the timeout error     *)
(* once more than 30 s have passed since it was called.                    *)
(***************************************************************************)
C8_TimeoutAfterDeadline ==
    \A c \in Callers :
        (/\ Len(calls[c]) >= 1
         /\ calls[c][1].at = startedAt[c]
         /\ OnlyAborts(c)
         /\ now - startedAt[c] > REQUEST_TIMEOUT_MS) =>
            /\ pc[c] = "failed"
            /\ error[c] = TimeoutError

(***************************************************************************)
(* C9: a 5xx response to attempt a < MAX_RETRIES is not returned:          *)
(* fetchWithRetry waits INITIAL_RETRY_DELAY_MS * 2^a (1000, 2000, 4000 ms  *)
(* for a = 0, 1, 2) and, when that wait ends, starts attempt a + 1 by      *)
(* calling enforceRateLimit.                                               *)
(***************************************************************************)
BackoffTable == << 1000, 2000, 4000 >>

\* in this step call c receives a 5xx response to an attempt before the last
Gets5xxEarly(c) ==
    /\ pc[c] = "fetch"
    /\ Len(hist'[c]) = Len(hist[c]) + 1
    /\ Is5xx(Last(hist'[c]))
    /\ attempt[c] < MAX_RETRIES

C9_BackoffThenNextAttempt ==
    [][\A c \in Callers :
          /\ Gets5xxEarly(c) =>
                /\ pc'[c] = "backoff"
                /\ exec'[c] = "running"
                /\ response'[c] = 0
                /\ due'[c] = now + BackoffTable[attempt[c] + 1]
                /\ attempt'[c] = attempt[c]
          /\ (pc[c] = "backoff" /\ pc'[c] # "backoff") =>
                /\ now = due[c]
                /\ attempt'[c] = attempt[c] + 1
                /\ pc'[c] = "admit"
                /\ requestQueue'[client1] = Append(requestQueue[client1], Last(requestQueue'[client1]))
                /\ Last(requestQueue'[client1]).owner = c
                /\ Last(requestQueue'[client1]).st = "queued"
      ]_vars

\* the third 5xx in a row: the call is in its 4000 ms backoff
C9_Witness ==
    \E c \in Callers :
        /\ pc[c] = "backoff"
        /\ attempt[c] = 2
        /\ \A k \in 1..Len(hist[c]) : Is5xx(hist[c][k])
        /\ due[c] - now = 4000

IsTransient(o) ==
    \/ Is5xx(o)
    \/ o.kind = "abort"
    \/ o.kind = "reject" /\ isRetryableError(o.error)

\* call c used every attempt and each of them failed transiently
BudgetExhausted(c) ==
    /\ Len(hist[c]) = MAX_RETRIES + 1
    /\ \A k \in 1..Len(hist[c]) : IsTransient(hist[c][k])

C11_LastConditionWins ==
    \A c \in Callers :
        BudgetExhausted(c) =>
            LET o == Last(hist[c])
            IN  CASE o.kind = "response" ->
                       /\ exec[c] = "returned"
                       /\ response[c] = o.status
                  [] o.kind = "abort" ->
                       /\ exec[c] = "threw"
                       /\ error[c] = TimeoutError
                  [] o.kind = "reject" ->
                       /\ exec[c] = "threw"
                       /\ error[c] = o.error

\* the last attempt fails in another way than the one before it
C11_Witness ==
    \E c \in Callers :
        /\ BudgetExhausted(c)
        /\ hist[c][MAX_RETRIES].kind = "abort"
        /\ Last(hist[c]).kind = "reject"
        /\ exec[c] = "threw"

(***************************************************************************)
(* C12: queryData on a known dataflow with a filter, other than 'all',     *)
(* that has a character outside [A-Za-z0-9._\-:+*] rejects with 'Invalid   *)
(* filter format'; no network call was issued, no admission was requested  *)
(* and lastRequestTime and requestQueue are as they were.                  *)
(***************************************************************************)
HasRejectedChar(filter) ==
    \E i \in 1..Len(filter) : filter[i] \notin FilterClass

\* call c is queryData(known id, filter with a rejected character)
QueriesBadFilter(c) ==
    /\ request[c].operation = "queryData"
    /\ \E df \in KNOWN_DATAFLOWS : df.id = request[c].dataflowId
    /\ request[c].filter # all
    /\ HasRejectedChar(request[c].filter)

C12_BadFilterRejectedBeforeNetwork ==
    \A c \in Callers :
        QueriesBadFilter(c) =>
            /\ pc[c] = "failed"
            /\ error[c].message = "Invalid filter format"
            /\ error[c].filter = request[c].filter
            /\ calls[c] = << >>
            /\ Admissions(c) = {}
            /\ exec[c] = "none"
            /\ lastRequestTime[client1] = 0
            /\ requestQueue[client1] = << >>

C12_Witness ==
    \E c \in Callers :
        /\ QueriesBadFilter(c)
        /\ request[c].filter = USA_rm
        /\ pc[c] = "failed"

(***************************************************************************)
(* C13: sanitizeFilter('') is rejected with the message 'filter cannot be  *)
(* empty', a message of its own, not the 'Invalid filter format' of the    *)
(* disallowed characters.                                                  *)
(***************************************************************************)
Sanitized == ret # NotCalled

C13_EmptyFilterOwnMessage ==
    (Sanitized /\ arg = << >>) =>
        /\ ret.threw
        /\ ret.error.message = "filter cannot be empty"
        /\ ret.error.message # InvalidFilterError(arg).message

(***************************************************************************)
(* C14: sanitizeFilter rejects every filter of more than 200 characters    *)
(* with 'exceeds maximum length', also one made of class characters only,  *)
(* and accepts a filter of exactly 200 class characters.                   *)
(***************************************************************************)
C14_LengthLimit ==
    Sanitized =>
        /\ Len(arg) > TestedMaxLength =>
              /\ ret.threw
              /\ ret.error.message = "exceeds maximum length"
        /\ (Len(arg) = TestedMaxLength /\ ~HasRejectedChar(arg)) => ~ret.threw

(***************************************************************************)
(* C15: queryData accepts every non-empty filter made of class characters  *)
(* only and puts it into the URL of every network call.  As stated (the    *)
(* filter is in the URL unchanged) this fails for filters with ':' or '+'; *)
(* what holds is that ':' and '+' are in the URL as %3A and %2B and every  *)
(* other character as it is, so a filter without ':' and '+', such as      *)
(* 'USA.GDP..', is in the URL unchanged.                                   *)
(***************************************************************************)
\* call c is queryData(known id, non-empty filter of class characters)
QueriesCleanFilter(c) ==
    /\ request[c].operation = "queryData"
    /\ \E df \in KNOWN_DATAFLOWS : df.id = request[c].dataflowId
    /\ request[c].filter # << >>
    /\ ~HasRejectedChar(request[c].filter)

\* the filter was not rejected
Accepted(c) ==
    /\ exec[c] # "none"
    /\ error[c].message # "Invalid filter format"

\* the filter segment of the URL of every network call of c, and of the URL built
UrlFilterIs(c, text) ==
    /\ request[c].url.filter = text
    /\ \A k \in 1..Len(calls[c]) : calls[c][k].url.filter = text

RECURSIVE ColonPlusEscaped(_)
ColonPlusEscaped(filter) ==
    IF filter = << >> THEN << >>
    ELSE (CASE Head(filter) = ":" -> << "%", "3", "A" >>
            [] Head(filter) = "+" -> << "%", "2", "B" >>
            [] OTHER -> << Head(filter) >>)
         \o ColonPlusEscaped(Tail(filter))

NamesUnknownDataflow(c) ==
    /\ request[c].operation \in {"queryData", "getDataStructure"}
    /\ \A df \in KNOWN_DATAFLOWS : df.id # request[c].dataflowId

C16_UnknownDataflowRejectedBeforeNetwork ==
    \A c \in Callers :
        NamesUnknownDataflow(c) =>
            /\ pc[c] = "failed"
            /\ error[c] = UnknownDataflowError(request[c].dataflowId)
            /\ calls[c] = << >>
            /\ hist[c] = << >>
            /\ Admissions(c) = {}
            /\ exec[c] = "none"
            /\ attempt[c] = 0
            /\ lastRequestTime[client1] = 0
            /\ requestQueue[client1] = << >>

C16_Witness ==
    \E c \in Callers :
        /\ NamesUnknownDataflow(c)
        /\ request[c].operation = "getDataStructure"
        /\ request[c].dataflowId = "UNKNOWN_ID"
        /\ error[c].message =
              "Unknown dataflow: UNKNOWN_ID. Use listDataflows() to see available dataflows."

(***************************************************************************)
(* C17: for a payload with N observations, in any number of data sets and  *)
(* series, and a limit L >= 1, parseDataObservations returns exactly       *)
(* min(N, L) records, the first min(N, L) of the walk; 200 observations    *)
(* with limit 50 give 50 records.                                          *)
(***************************************************************************)
Decoded == ret # NotCalled /\ arg.fn = "parseDataObservations"

C17_LimitIsHardStop ==
    (Decoded /\ arg.family = "shaped") =>
        /\ ~ret.threw
        /\ Len(ret.value) = Min({arg.count, arg.limit.v})
        /\ \A i \in 1..Len(ret.value) : ret.value[i].value = Num(i)

C17_Witness ==
    /\ Decoded
    /\ arg.family = "shaped"
    /\ arg.count = ManyObservations
    /\ arg.limit = Num(TestedLimit)
    /\ Len(ret.value) = TestedLimit

(***************************************************************************)
(* C18: a payload built from N known (dimensions, value) tuples and the    *)
(* dimension definitions decodes, with no limit, to exactly N records      *)
(* whose dimension maps and values are those of the known tuples, in any   *)
(* order, every index resolved through the definitions.                    *)
(***************************************************************************)
C18_RoundTrip ==
    (Decoded /\ arg.family = "built") =>
        /\ ~ret.threw
        /\ Len(ret.value) = Cardinality(arg.tuples)
        /\ { [dimensions |-> ret.value[i].dimensions, value |-> ret.value[i].value] :
               i \in 1..Len(ret.value) }
              = { [dimensions |-> t.dimensions, value |-> Num(t.value)] : t \in arg.tuples }

C18_Witness ==
    /\ Decoded
    /\ arg.family = "built"
    /\ Cardinality(arg.tuples) >= 2
    /\ Len(ret.value) = Cardinality(arg.tuples)
    /\ \E i \in 1..Len(ret.value) :
          /\ "MEASURE" \in DOMAIN ret.value[i].dimensions
          /\ ret.value[i].dimensions["MEASURE"] = "CPI"

KeyDecoded == ret # NotCalled /\ arg.fn = "parseSeriesKeyWithMetadata"

Positions == 0..(Len(arg.parts) - 1)

DimensionExists(i) == i < Len(arg.dims)

\* the raw index at position i reads as a place of the value list of dimension i
IndexExists(i) ==
    /\ parseInt(arg.parts[i + 1]) >= 0
    /\ parseInt(arg.parts[i + 1]) < Len(arg.dims[i + 1].values)

ValueId(i) == arg.dims[i + 1].values[parseInt(arg.parts[i + 1]) + 1]

HasEntry(name, text) == name \in DOMAIN ret.value /\ ret.value[name] = text

Diagnosed == ret # NotCalled

C21_DiagnosticByStatusClass ==
    Diagnosed =>
        /\ (arg.statusCode >= 500 /\ arg.statusCode <= 599) =>
              ret.value.message = "OECD server error - temporary issue"
        /\ Len(ret.value.suggestions) > 0
        /\ ("filterSyntax" \in DOMAIN ret.value) <=> (arg.statusCode = 422)

(***************************************************************************)
(* C22 (as stated): every failure queryData ends with (unknown dataflow,   *)
(* invalid filter, timeout, network failure after the retries, response    *)
(* that is not ok) reaches the caller as a structured diagnostic with a    *)
(* status and suggestions, never as the plain message of an error.         *)
(***************************************************************************)
QueryFailed(c) == request[c].operation = "queryData" /\ pc[c] = "failed"

IsDiagnostic(e) ==
    /\ "details" \in DOMAIN e
    /\ "statusCode" \in DOMAIN e.details
    /\ "suggestions" \in DOMAIN e.details
    /\ Len(e.details.suggestions) > 0

DescribesKnown(c) ==
    /\ request[c].operation = "getDataStructure"
    /\ getDataflowById(request[c].dataflowId) # {}

DimensionIds(structure) ==
    [i \in 1..Len(structure.dimensions) |-> structure.dimensions[i].id]

\* the live structure is not to be had
LiveFetchFailed(c) ==
    \/ exec[c] = "threw"
    \/ ~responseOk(response[c])
    \/ ~result[c].read.json
    \/ parseDataStructure(request[c].dataflowId, result[c].read.data).threw
    \/ LET meta == extractDimensionMetadata(result[c].read.data)
       IN  meta.seriesDimensions = Arr(<< >>) /\ meta.observationDimensions = Arr(<< >>)

C23_DescribeNeverRaises ==
    \A c \in Callers : DescribesKnown(c) =>
        /\ pc[c] # "failed"
        /\ pc[c] = "done" =>
              /\ result[c].kind = "structure"
              /\ result[c].value.dataflowId = request[c].dataflowId
              /\ Len(result[c].value.dimensions) > 0
              /\ LiveFetchFailed(c) =>
                    DimensionIds(result[c].value) =
                        << Str("REF_AREA"), Str("TIME_PERIOD"), Str("MEASURE") >>

\* getDataStructure('MEI') resolved with the fallback structure after four timeouts
C23_Witness ==
    \E c \in Callers :
        /\ DescribesKnown(c)
        /\ request[c].dataflowId = "MEI"
        /\ pc[c] = "done"
        /\ Len(hist[c]) = MAX_RETRIES + 1
        /\ OnlyAborts(c)
        /\ result[c].value = getFallbackStructure("MEI")

(***************************************************************************)
(* C24: the first enforceRateLimit() on a new client (lastRequestTime = 0, *)
(* nothing chained before it) resolves at once: its continuation never     *)
(* suspends and stamps lastRequestTime at the instant of the call.         *)
(***************************************************************************)
C24_FirstAdmissionImmediate ==
    Len(requestQueue[client1]) >= 1 =>
        LET first == requestQueue[client1][1]
        IN  /\ first.st # "sleeping"
            /\ first.st = "queued" => now = startedAt[first.owner]
            /\ first.st = "done" => first.stamp = startedAt[first.owner]

\* the first admission is stamped and the fetch it admitted is issued, at the
\* instant of the call
C24_Witness ==
    /\ Len(requestQueue[client1]) >= 1
    /\ requestQueue[client1][1].st = "done"
    /\ \E c \in Callers :
          /\ requestQueue[client1][1].owner = c
          /\ Len(calls[c]) >= 1
          /\ calls[c][1].ticket = 1
          /\ calls[c][1].at = startedAt[c]
          /\ lastRequestTime[client1] >= startedAt[c]

(***************************************************************************)
(* C25 (as stated): queryData sanitizes the filter before it looks the     *)
(* dataflow up: called with an invalid filter and an id that is not in the *)
(* catalog, it rejects with 'Invalid filter format'.                       *)
(***************************************************************************)
QueriesBadFilterOfUnknown(c) ==
    /\ request[c].operation = "queryData"
    /\ getDataflowById(request[c].dataflowId) = {}
    /\ request[c].filter # all
    /\ ~FilterPatternTest(request[c].filter)

C25_InvalidFilterRaisedFirst ==
    \A c \in Callers : QueriesBadFilterOfUnknown(c) =>
        /\ pc[c] = "failed"
        /\ error[c] = InvalidFilterError(request[c].filter)

(***************************************************************************)
(* C25 (amended): queryData looks the dataflow up, then sanitizes the      *)
(* filter, then calls fetchWithRetry, then decodes: called with an invalid *)
(* filter and an id that is not in the catalog it rejects with 'Unknown    *)
(* dataflow'; 'Invalid filter format' is raised for an id of the catalog   *)
(* only; either way no admission was requested and no network call made,   *)
(* and observations are returned only after fetchWithRetry has returned.   *)
(***************************************************************************)
C25_UnknownDataflowRaisedFirst ==
    \A c \in Callers : request[c].operation = "queryData" =>
        /\ QueriesBadFilterOfUnknown(c) =>
              /\ pc[c] = "failed"
              /\ error[c] = UnknownDataflowError(request[c].dataflowId)
        /\ (pc[c] = "failed" /\ error[c] = InvalidFilterError(request[c].filter)) =>
              getDataflowById(request[c].dataflowId) # {}
        /\ (request[c].filter # all /\ ~FilterPatternTest(request[c].filter)) =>
              /\ exec[c] = "none"
              /\ calls[c] = << >>
              /\ Admissions(c) = {}
        /\ result[c].kind = "observations" =>
              /\ exec[c] = "returned"
              /\ Len(calls[c]) >= 1
              /\ request[c].url # NoUrl

\* queryData('UNKNOWN_ID', 'USA;rm -rf /') rejected with 'Unknown dataflow'
C25_Witness ==
    \E c \in Callers :
        /\ QueriesBadFilterOfUnknown(c)
        /\ request[c].dataflowId = "UNKNOWN_ID"
        /\ request[c].filter = USA_rm
        /\ pc[c] = "failed"
        /\ error[c].message =
              "Unknown dataflow: UNKNOWN_ID. Use listDataflows() to see available dataflows."

(***************************************************************************)
(* C26: an attempt whose fetch has not settled REQUEST_TIMEOUT_MS = 30 s   *)
(* after it was issued is aborted and counted as a timeout.  A timeout of  *)
(* attempt a < MAX_RETRIES is retried after INITIAL_RETRY_DELAY_MS * 2^a,  *)
(* the backoff of a 5xx; a timeout of the last attempt (a = MAX_RETRIES)   *)
(* alone makes fetchWithRetry throw the timeout error.                     *)
(***************************************************************************)
\* the time attempt k of call c ended
AttemptEnd(c, k) == calls[c][k].at + hist[c][k].latency

IsNetworkFailure(o) == o.kind = "reject" /\ o.error.message = "read ECONNRESET"

OnlyNetworkFailures(c) == \A k \in 1..Len(hist[c]) : IsNetworkFailure(hist[c][k])

IsOtherFailure(o) == o.kind = "reject" /\ o.error.message = "Invalid URL"

C28_OtherFailureRaisedAtOnce ==
    \A c \in Callers : \A k \in 1..Len(hist[c]) :
        IsOtherFailure(hist[c][k]) =>
            /\ k = Len(hist[c])
            /\ exec[c] = "threw"
            /\ pc[c] = "failed"
            /\ error[c] = hist[c][k].error
            /\ endedAt[c] = AttemptEnd(c, k)
            /\ attempt[c] = k - 1
            /\ Len(calls[c]) = k
            /\ Cardinality(Admissions(c)) = k
            /\ \A i \in Admissions(c) : Admitted(i)

\* the second attempt, made after a 500, fails with 'Invalid URL': two attempts
\* remain and the error is thrown
C28_Witness ==
    \E c \in Callers :
        /\ Len(hist[c]) = 2
        /\ IsStatus(hist[c][1], 500)
        /\ IsOtherFailure(hist[c][2])
        /\ exec[c] = "threw"
        /\ error[c].name = "TypeError"
        /\ Len(calls[c]) = 2

(***************************************************************************)
(* C29 (as stated): the dimension definitions are taken from the primary   *)
(* shape (data.structures[0].dimensions) when it is there, else from the   *)
(* legacy shape (structure.dimensions); the fallback dimensions are        *)
(* returned only when neither shape yields a dimension.                    *)
(***************************************************************************)
StructureParsed == ret # NotCalled /\ arg.fn = "parseDataStructure"

Present(choice) == choice.kind = "present"

\* the ids of the definitions a shape carries, series before observation
Yield(choice) ==
    [i \in 1..(Len(choice.series) + Len(choice.observation)) |->
        Str((choice.series \o choice.observation)[i].id)]

\* the shape whose definitions are used
Winner == IF Present(arg.primary) THEN arg.primary ELSE arg.legacy

GenericIds == << Str("REF_AREA"), Str("TIME_PERIOD"), Str("MEASURE") >>

IsGeneric(structure) == structure.dimensions = getFallbackStructure(arg.dataflowId).dimensions

C29_FallbackOnlyWhenNeitherYields ==
    StructureParsed =>
        /\ ~ret.threw
        /\ Yield(Winner) # << >> => DimensionIds(ret.value) = Yield(Winner)
        /\ IsGeneric(ret.value) => (Yield(arg.primary) = << >> /\ Yield(arg.legacy) = << >>)

(***************************************************************************)
(* C29 (amended): the dimension definitions are taken from the primary     *)
(* shape when it is there, else from the legacy shape, and the fallback    *)
(* dimensions (REF_AREA, TIME_PERIOD, MEASURE) are returned exactly when   *)
(* the shape so chosen yields no dimension: a primary shape that is there  *)
(* with empty lists gives the fallback dimensions also when the legacy     *)
(* shape has definitions.                                                  *)
(***************************************************************************)
C29_FallbackWhenWinnerYieldsNone ==
    StructureParsed =>
        /\ ~ret.threw
        /\ ret.value.dataflowId = arg.dataflowId
        /\ Yield(Winner) # << >> => DimensionIds(ret.value) = Yield(Winner)
        /\ Yield(Winner) = << >> =>
              /\ IsGeneric(ret.value)
              /\ DimensionIds(ret.value) = GenericIds

\* both shapes are there with definitions: those of the primary shape are used
C29_Witness ==
    /\ StructureParsed
    /\ Present(arg.primary)
    /\ Present(arg.legacy)
    /\ Yield(arg.legacy) = << Str("FREQ"), Str("TIME_PERIOD") >>
    /\ DimensionIds(ret.value) = << Str("REF_AREA"), Str("MEASURE"), Str("TIME_PERIOD") >>

(***************************************************************************)
(* C30: on its turn a continuation of enforceRateLimit reads elapsed =     *)
(* now - lastRequestTime and suspends for exactly max(0, 1500 - elapsed):  *)
(* with elapsed >= 1500 ms it does not suspend and stamps at once,         *)
(* otherwise it wakes 1500 - elapsed later, and lastRequestTime is written *)
(* only when the suspension has ended, with the time of that instant.      *)
(***************************************************************************)
C30_SuspendsForRemainder ==
    [][\A i \in 1..Len(requestQueue[client1]) :
          LET entry == requestQueue[client1][i]
              after == requestQueue'[client1][i]
              elapsed == now - lastRequestTime[client1]
          IN  /\ (entry.st = "queued" /\ after.st # "queued") =>
                    IF elapsed >= 1500
                    THEN /\ after.st = "done"
                         /\ after.stamp = now
                         /\ lastRequestTime'[client1] = now
                    ELSE /\ after.st = "sleeping"
                         /\ after.due = now + (1500 - elapsed)
                         /\ lastRequestTime'[client1] = lastRequestTime[client1]
              /\ (entry.st = "sleeping" /\ after.st = "sleeping") =>
                    /\ lastRequestTime'[client1] = lastRequestTime[client1]
                    /\ now' <= entry.due
              /\ (entry.st = "sleeping" /\ after.st # "sleeping") =>
                    /\ now = entry.due
                    /\ after.st = "done"
                    /\ after.stamp = now
                    /\ lastRequestTime'[client1] = now
      ]_vars

\* a continuation that found 1000 ms elapsed is suspended for the remaining 500 ms
C30_Witness ==
    \E i \in 1..Len(requestQueue[client1]) :
        /\ requestQueue[client1][i].st = "sleeping"
        /\ requestQueue[client1][i].due = now + 500
        /\ now - lastRequestTime[client1] = 1000

(***************************************************************************)
(* C31: the rate-limiter state is per client instance.  Every entry of an  *)
(* instance's requestQueue belongs to a call made on that instance, and a  *)
(* step of a call made on one instance (its enforceRateLimit() calls, its  *)
(* attempts, its retries, its failure) or of one instance's chain leaves   *)
(* lastRequestTime and requestQueue of every other instance unchanged; so  *)
(* the first admission on an instance is immediate whatever the other      *)
(* instance has admitted.                                                  *)
(***************************************************************************)
FieldsOf(this) == << lastRequestTime[this], requestQueue[this] >>

C31_InstancesIndependent ==
    /\ [](\A this \in Instances : \A i \in 1..Len(requestQueue[this]) :
             /\ request[requestQueue[this][i].owner].client = this
             /\ (i = 1 /\ requestQueue[this][i].st = "done") =>
                   requestQueue[this][i].stamp = startedAt[requestQueue[this][i].owner])
    /\ [][(\A c \in Callers :
               (pc'[c] # pc[c] \/ attempt'[c] # attempt[c]) =>
                   \A other \in Instances \ {request'[c].client} :
                       FieldsOf(other)' = FieldsOf(other))
           /\
           (\A this \in Instances :
               FieldsOf(this)' # FieldsOf(this) =>
                   \A peer \in Instances \ {this} : FieldsOf(peer)' = FieldsOf(peer))
        ]_vars

\* a call on client1 was retried after a failure and a call on client2 was admitted
\* less than 1500 ms after an admission of client1
C31_Witness ==
    \E i \in 1..Len(requestQueue[client1]), j \in 1..Len(requestQueue[client2]) :
        /\ requestQueue[client1][i].st = "done"
        /\ requestQueue[client2][j].st = "done"
        /\ requestQueue[client2][j].stamp >= requestQueue[client1][i].stamp
        /\ requestQueue[client2][j].stamp - requestQueue[client1][i].stamp < MIN_REQUEST_INTERVAL_MS
        /\ attempt[requestQueue[client1][i].owner] >= 1
        /\ i >= 2

(***************************************************************************)
(* C32: the chain of enforceRateLimit never rejects: an entry only moves   *)
(* from queued to sleeping to done and stays done, and every               *)
(* enforceRateLimit() call is eventually resolved as long as timers fire,  *)
(* also when the call that owns an earlier entry has failed, timed out or  *)
(* been abandoned.                                                         *)
(***************************************************************************)
MaxEntries == NumCallers * (MAX_RETRIES + 1)

C32_EveryAdmissionResolves ==
    /\ \A k \in 1..MaxEntries :
          (Len(requestQueue[client1]) >= k)
              ~> (Len(requestQueue[client1]) >= k /\ requestQueue[client1][k].st = "done")
    /\ [][\A k \in 1..Len(requestQueue[client1]) :
             /\ Len(requestQueue'[client1]) >= k
             /\ requestQueue[client1][k].st = "done" =>
                   requestQueue'[client1][k] = requestQueue[client1][k]
             /\ requestQueue[client1][k].st = "sleeping" =>
                   requestQueue'[client1][k].st \in {"sleeping", "done"}
        ]_vars

\* a call has failed on its network attempt and an enforceRateLimit() call of the
\* other call, chained behind the failed call's, is resolved after the failure
C32_Witness ==
    \E i, j \in Entries :
        /\ i < j
        /\ requestQueue[client1][i].owner # requestQueue[client1][j].owner
        /\ pc[requestQueue[client1][i].owner] = "failed"
        /\ Len(hist[requestQueue[client1][i].owner]) >= 1
        /\ Admitted(j)
        /\ requestQueue[client1][j].stamp > endedAt[requestQueue[client1][i].owner]

(***************************************************************************)
(* C33: whatever the remote does on each attempt (it responds, fetch       *)
(* fails, or the attempt is aborted at its deadline), every fetchWithRetry *)
(* eventually ends, and ends in exactly one way: it returned a response    *)
(* and threw nothing, or it threw an error and returned no response; once  *)
(* ended it stays so, and no attempt has an index beyond MAX_RETRIES.      *)
(***************************************************************************)
C33_ExecuteTerminates ==
    /\ \A c \in Callers : (exec[c] = "running") ~> ExecEnded(c)
    /\ [](\A c \in Callers :
             /\ attempt[c] <= MAX_RETRIES
             /\ Len(calls[c]) <= MAX_RETRIES + 1
             /\ exec[c] = "returned" =>
                   /\ response[c] # 0
                   /\ Last(hist[c]).kind = "response"
             /\ exec[c] = "threw" =>
                   /\ response[c] = 0
                   /\ error[c] # NoError
                   /\ Last(hist[c]).kind # "response"
             /\ exec[c] \in {"none", "running"} => response[c] = 0)
    /\ [][\A c \in Callers :
             ExecEnded(c) => /\ exec'[c] = exec[c]
                             /\ response'[c] = response[c]
                             /\ calls'[c] = calls[c]]_vars

\* one call has returned a response after retries and the other has thrown
C33_Witness ==
    \E c, d \in Callers :
        /\ exec[c] = "returned" /\ Len(calls[c]) >= 2
        /\ exec[d] = "threw"

(***************************************************************************)
(* C34: the backoff wait and the pending network call of a fetchWithRetry  *)
(* are outside the chain of enforceRateLimit.  While a call is in backoff  *)
(* or awaits its response it holds no unresolved entry of the chain, and   *)
(* time never passes while an entry whose predecessor is resolved has not  *)
(* started, so another call's admission waits for the 1500 ms spacing      *)
(* only.  When the backoff ends, the retry's enforceRateLimit() is chained *)
(* at the tail, behind every entry chained before, and it resolves after   *)
(* each of them.                                                           *)
(***************************************************************************)
C34_BackoffOutsideChain ==
    /\ [](\A c \in Callers :
             /\ pc[c] \in {"fetch", "backoff"} => \A i \in Admissions(c) : Admitted(i)
             /\ \A i \in Admissions(c), j \in Entries :
                   (j < i /\ Admitted(i)) =>
                       /\ Admitted(j)
                       /\ requestQueue[client1][j].stamp <= requestQueue[client1][i].stamp)
    /\ [][(now' # now =>
               \A j \in Entries :
                   requestQueue[client1][j].st = "queued" =>
                       (j > 1 /\ ~Admitted(j - 1)))
           /\
           (\A c \in Callers :
               (pc[c] = "backoff" /\ pc'[c] = "admit") =>
                   /\ requestQueue'[client1] =
                          Append(requestQueue[client1],
                                 [owner |-> c, st |-> "queued", due |-> 0, stamp |-> 0])
                   /\ ticket'[c] = Len(requestQueue[client1]) + 1)
      ]_vars

\* after a failed attempt of one call, during which the other call was admitted, the
\* retry was chained behind the other call's entry and admitted 1500 ms after it
C34_Witness ==
    \E c, d \in Callers : \E i, j \in Entries :
        /\ c # d
        /\ requestQueue[client1][i].owner = c
        /\ requestQueue[client1][j].owner = d
        /\ j < i
        /\ Len(hist[c]) >= 1
        /\ requestQueue[client1][j].st = "done"
        /\ requestQueue[client1][j].stamp > calls[c][1].at
        /\ requestQueue[client1][j].stamp <= AttemptEnd(c, 1) + retryDelay(0)
        /\ requestQueue[client1][i].st = "done"
        /\ requestQueue[client1][i].stamp = requestQueue[client1][j].stamp + MIN_REQUEST_INTERVAL_MS

(***************************************************************************)
(* C35: a 5xx response to the last attempt (attempt index MAX_RETRIES) is  *)
(* returned by fetchWithRetry as a response, at the time it arrived, with  *)
(* no backoff after it, and queryData then rejects with the diagnostic of  *)
(* that status.  A backoff is entered only with attempt index below        *)
(* MAX_RETRIES and lasts 1000 * 2^attempt ms, so the backoffs of one       *)
(* fetchWithRetry add up to at most 1000 + 2000 + 4000 = 7000 ms.          *)
(***************************************************************************)
\* the backoffs call c has gone through, and the whole of the one it is in
RECURSIVE BackoffsBefore(_)
BackoffsBefore(a) ==
    IF a = 0 THEN 0 ELSE 1000 * Pow2(a - 1) + BackoffsBefore(a - 1)

BackoffSpent(c) ==
    BackoffsBefore(attempt[c])
        + (IF pc[c] = "backoff" THEN due[c] - AttemptEnd(c, Len(hist[c])) ELSE 0)

C35_LastServerErrorReturned ==
    \A c \in Callers :
        /\ (Len(hist[c]) = MAX_RETRIES + 1 /\ Is5xx(Last(hist[c]))) =>
              /\ exec[c] = "returned"
              /\ response[c] = Last(hist[c]).status
              /\ endedAt[c] = AttemptEnd(c, MAX_RETRIES + 1)
              /\ attempt[c] = MAX_RETRIES
              /\ pc[c] \in {"returned", "failed"}
              /\ pc[c] = "failed" =>
                    /\ error[c] = DetailedError(Last(hist[c]).status, request[c].dataflowId,
                                                request[c].filter)
                    /\ error[c].details.statusCode = Last(hist[c]).status
        /\ pc[c] = "backoff" =>
              /\ attempt[c] < MAX_RETRIES
              /\ Len(hist[c]) = attempt[c] + 1
              /\ due[c] - AttemptEnd(c, Len(hist[c])) = 1000 * Pow2(attempt[c])
        /\ BackoffSpent(c) <= 7000

\* four 5xx responses in a row: queryData has rejected with the diagnostic of the
\* last one after backoffs of 7000 ms in all
C35_Witness ==
    \E c \in Callers :
        /\ Len(hist[c]) = MAX_RETRIES + 1
        /\ \A k \in 1..Len(hist[c]) : Is5xx(hist[c][k])
        /\ pc[c] = "failed"
        /\ IsDiagnostic(error[c])
        /\ BackoffSpent(c) = 7000

(***************************************************************************)
(* C36: with clientSideLimit left out or 0, parseDataObservations applies  *)
(* no cap: it returns one record for every observation of the payload, in  *)
(* the order of the walk; a limit of 0 does not give an empty result.      *)
(***************************************************************************)
C36_NoLimitNoCap ==
    (Decoded /\ arg.family = "unlimited") =>
        /\ ~ret.threw
        /\ Len(ret.value) = arg.count
        /\ \A i \in 1..Len(ret.value) : ret.value[i].value = Num(i)

\* the 200 observations of the test payload, decoded with a limit of 0
C36_Witness ==
    /\ Decoded
    /\ arg.family = "unlimited"
    /\ arg.limit = Num(0)
    /\ arg.count = ManyObservations
    /\ Len(ret.value) = ManyObservations

(***************************************************************************)
(* C37: parseDataObservations is all-or-nothing on an exception.  When the *)
(* walk comes to a series entry that is null or undefined, so that reading *)
(* its observations throws, the function returns the empty sequence: the   *)
(* records decoded from the series and data sets before it are discarded.  *)
(* The walk comes to the entry unless the limit has ended it before, which *)
(* takes more observations before the entry than the limit.                *)
(***************************************************************************)
\* the walk reads the bad entry: the limit, if any, is not exceeded before it
ReadsBadEntry ==
    ~Truthy(arg.limit) \/ arg.before <= arg.limit.v

C37_AllOrNothing ==
    (Decoded /\ arg.family = "interrupted") =>
        /\ ~ret.threw
        /\ ReadsBadEntry => ret.value = << >>
        /\ ~ReadsBadEntry =>
              /\ Len(ret.value) = arg.limit.v
              /\ \A i \in 1..Len(ret.value) : ret.value[i].value = Num(i)

\* four observations in two data sets precede the null entry: nothing is returned
C37_Witness ==
    /\ Decoded
    /\ arg.family = "interrupted"
    /\ arg.before = 2 * MaxObs
    /\ arg.limit = Undefined
    /\ ret = Returned(<< >>)

(***************************************************************************)
(* C38: the output of sanitizeFilter for a filter it accepts holds only    *)
(* characters of [A-Za-z0-9._\-*%]: each ':' has become %3A, each '+' has   *)
(* become %2B and every other character is where it was, unchanged; so    *)
(* the filter segment of the URL holds no '/', '?', '#', ';', blank or     *)
(* other character outside that set.                                       *)
(***************************************************************************)
SafeChars == AlphaNumeric \cup { ".", "_", "-", "*", "%" }

\* where the text standing for character i of the filter starts in the output
PlaceOf(i) == i + 2 * Cardinality({ j \in 1..(i - 1) : arg[j] \in { ":", "+" } })

C38_OutputIsPathSafe ==
    (Sanitized /\ ~ret.threw) =>
        /\ \A k \in 1..Len(ret.value) :
              /\ ret.value[k] \in SafeChars
              /\ ret.value[k] \notin { "/", "?", "#", ";", " ", ":", "+" }
        /\ Len(ret.value) = PlaceOf(Len(arg) + 1) - 1
        /\ \A i \in 1..Len(arg) :
              CASE arg[i] = ":" ->
                     SubSeq(ret.value, PlaceOf(i), PlaceOf(i) + 2) = << "%", "3", "A" >>
                [] arg[i] = "+" ->
                     SubSeq(ret.value, PlaceOf(i), PlaceOf(i) + 2) = << "%", "2", "B" >>
                [] OTHER -> ret.value[PlaceOf(i)] = arg[i]

\* 'USA+CAN.GDP' is accepted and comes out as 'USA%2BCAN.GDP'
C38_Witness ==
    /\ Sanitized
    /\ arg = USA_CAN_GDP
    /\ ret = Returned(<< "U", "S", "A", "%", "2", "B", "C", "A", "N", ".", "G", "D", "P" >>)

(***************************************************************************)
(* C39: the error 'Failed after 3 retries' of the throw that follows the   *)
(* loop of fetchWithRetry is never thrown.  Every backoff is entered with  *)
(* an attempt index below MAX_RETRIES, so the loop never ends through its  *)
(* condition; that throw is reached only by the break of the timeout       *)
(* branch on the last attempt, where lastError has just been set to the    *)
(* timeout error, which is then the error thrown.                          *)
(***************************************************************************)
GenericMessage == "Failed after 3 retries"

C39_GenericErrorUnreachable ==
    \A c \in Callers :
        /\ error[c].message # GenericMessage
        /\ lastError[c].message # GenericMessage
        /\ pc[c] = "backoff" => attempt[c] + 1 <= MAX_RETRIES
        /\ (exec[c] = "threw" /\ Last(hist[c]).kind = "abort") =>
              /\ Len(hist[c]) = MAX_RETRIES + 1
              /\ lastError[c] = TimeoutError
              /\ error[c] = lastError[c]
        /\ (exec[c] = "threw" /\ Last(hist[c]).kind # "abort") =>
              error[c] = Last(hist[c]).error

\* the throw after the loop has thrown the timeout error recorded on the last of
\* four attempts, the earlier ones having failed otherwise
C39_Witness ==
    \E c \in Callers :
        /\ exec[c] = "threw"
        /\ Len(hist[c]) = MAX_RETRIES + 1
        /\ Last(hist[c]).kind = "abort"
        /\ hist[c][1].kind # "abort"
        /\ error[c] = TimeoutError

====
